---- MODULE Spec2Model ----
(***************************************************************************)
(* A model of the squirrel SQL builder (github.com/n-r-w/squirrel): the    *)
(* placeholder formatter, the expression fragments, and the statement      *)
(* builders (SELECT, INSERT, UPDATE, DELETE, CTE) with their ToSql /       *)
(* toSqlRaw rendering.                                                     *)
(*                                                                         *)
(* SQL text is a sequence of elements.  An element is either an opaque run *)
(* of characters without question marks (k = "lit"), one '?' character     *)
(* (k = "q"), or one numbered dialect token such as $3 (k = "tok", s the   *)
(* prefix, n the index).  The field g is a ghost label: a '?' written for  *)
(* a bound value carries the value it is meant to bind, and formatting     *)
(* copies it to the token.  No operator of the program model reads g.      *)
(*                                                                         *)
(* Go values of type any are records with a field kind.  A nil []any and   *)
(* an empty []any are both the empty sequence.                             *)
(***************************************************************************)
EXTENDS Integers, Sequences, FiniteSets, TLC

VARIABLES
    b,          \* the statement builder under construction
    out,        \* result of the last ToSql on b
    base,       \* a builder value kept aside after a fork
    baseOut,    \* what base rendered to when it was set aside
    text,       \* input of the placeholder formatter
    dialect,    \* placeholder format used by the formatter
    formatted,  \* output of the placeholder formatter
    frag,       \* fragment whose own ToSql is called
    fragOut,    \* result of the last ToSql on frag
    hist,       \* the calls that made frag or b, in order (history only)
    debug       \* result of the last DebugSqlizer on frag

vars == <<b, out, base, baseOut, text, dialect, formatted, frag, fragOut, hist, debug>>

----------------------------------------------------------------------------
(* Bounds *)

\* longest text given to the placeholder formatter
MaxLen == 4
\* clause fragments added to a statement that nests the inner SELECT
MaxParts == 2
\* clauses added to a SELECT that nests nothing
MaxClauses == 3
\* wrappers put around a leaf fragment
MaxDepth == 2

----------------------------------------------------------------------------
(* SQL text *)

Lit(s) == [k |-> "lit", s |-> s, n |-> 0, g |-> 0]
Q(g) == [k |-> "q", s |-> "?", n |-> 0, g |-> g]
Tok(p, i, g) == [k |-> "tok", s |-> p, n |-> i, g |-> g]

\* bytes.Buffer.WriteString / io.WriteString; writing "" writes nothing
WriteString(w, s) == IF s = "" THEN w ELSE Append(w, Lit(s))

Formats == {"Question", "Dollar", "Colon", "AtP"}

FormatPrefix(f) ==
    CASE f = "Dollar" -> "$"
      [] f = "Colon" -> ":"
      [] f = "AtP" -> "@p"
      [] OTHER -> "?"

FormatToken(f, i, g) == IF f = "Question" THEN Q(g) ELSE Tok(FormatPrefix(f), i, g)

RECURSIVE replacePositionalPlaceholders_noEscape(_, _, _)
replacePositionalPlaceholders_noEscape(sql, f, i) ==
    IF sql = <<>> THEN <<>>
    ELSE IF Head(sql).k = "q"
         THEN <<FormatToken(f, i + 1, Head(sql).g)>>
                  \o replacePositionalPlaceholders_noEscape(Tail(sql), f, i + 1)
         ELSE <<Head(sql)>> \o replacePositionalPlaceholders_noEscape(Tail(sql), f, i)

RECURSIVE replacePositionalPlaceholders(_, _, _)
replacePositionalPlaceholders(sql, f, i) ==
    IF sql = <<>> THEN <<>>
    ELSE IF Head(sql).k = "q"
         THEN IF Len(sql) > 1 /\ sql[2].k = "q"
              THEN <<Q(Head(sql).g)>>
                       \o replacePositionalPlaceholders(Tail(Tail(sql)), f, i)
              ELSE <<FormatToken(f, i + 1, Head(sql).g)>>
                       \o replacePositionalPlaceholders(Tail(sql), f, i + 1)
         ELSE <<Head(sql)>> \o replacePositionalPlaceholders(Tail(sql), f, i)

ReplacePlaceholders(f, sql) == replacePositionalPlaceholders(sql, f, 0)

----------------------------------------------------------------------------
(* Results of ToSql *)

NoErr == ""
R(sql, args, err) == [sql |-> sql, args |-> args, err |-> err]
Fail(err) == R(<<>>, <<>>, err)
NoOut == [called |-> FALSE, sql |-> <<>>, args |-> <<>>, err |-> NoErr]
Called(r) == [called |-> TRUE, sql |-> r.sql, args |-> r.args, err |-> r.err]

NoDebug == [called |-> FALSE, text |-> <<>>]
NoBuilder == [kind |-> "none"]
NilV == [kind |-> "nil"]

----------------------------------------------------------------------------
(* Go values and fragments *)

IntV(n) == [kind |-> "int", v |-> n]
StrV(t) == [kind |-> "string", sql |-> t]
ListV(s) == [kind |-> "list", elems |-> s]
OtherV == [kind |-> "other"]
BoolV(x) == [kind |-> "bool", v |-> x]
\* a []byte without a zero byte, which is a driver value
BytesV == [kind |-> "bytes"]

GhostOf(v) == IF v.kind = "int" THEN v.v ELSE 0

\* kinds of values that implement rawSqlizer (they have a toSqlRaw method)
RawKinds == {"select", "insert", "update", "delete"}

\* kinds of values that implement Sqlizer
SqlizerKinds == RawKinds \cup
    {"part", "wherePart", "expr", "alias", "sum", "count", "min", "max", "avg",
     "exists", "notExists", "in", "notIn", "and", "or", "lt", "cteExpr", "cte",
     "case", "not", "eq", "notEq", "range", "eqNotEmpty", "like"}

IsSqlizer(v) == v.kind \in SqlizerKinds
isListType(v) == v.kind = "list"

newPart(pred, args) == [kind |-> "part", pred |-> pred, args |-> args]
newWherePart(pred, args) == [kind |-> "wherePart", pred |-> pred, args |-> args]
Expr(sql, args) == [kind |-> "expr", sql |-> sql, args |-> args]
Alias(e, a) == [kind |-> "alias", expr |-> e, alias |-> a]
Sum(e) == [kind |-> "sum", expr |-> e]
Count(e) == [kind |-> "count", expr |-> e]
Min(e) == [kind |-> "min", expr |-> e]
Max(e) == [kind |-> "max", expr |-> e]
Avg(e) == [kind |-> "avg", expr |-> e]
Exists(e) == [kind |-> "exists", expr |-> e]
NotExists(e) == [kind |-> "notExists", expr |-> e]
In(column, e) == [kind |-> "in", column |-> column, expr |-> e]
NotIn(column, e) == [kind |-> "notIn", column |-> column, expr |-> e]
And(parts) == [kind |-> "and", parts |-> parts]
Or(parts) == [kind |-> "or", parts |-> parts]
\* Lt, LtOrEq, Gt, GtOrEq: a map from keys to values and the two flags
LtMap(m, opposite, orEq) == [kind |-> "lt", m |-> m, opposite |-> opposite, orEq |-> orEq]
Gt(m) == LtMap(m, TRUE, FALSE)
\* Like, NotLike, ILike and NotILike by their operator; order is the order in
\* which the runtime iterates over the map
Like(m, opr) == [kind |-> "like", m |-> m, opr |-> opr, order |-> <<>>]
Eq(m) == [kind |-> "eq", m |-> m]
NotEq(m) == [kind |-> "notEq", m |-> m]
EqNotEmpty(m) == [kind |-> "eqNotEmpty", m |-> m]
Range(column, start, end) ==
    [kind |-> "range", column |-> column, start |-> start, end |-> end]
\* a pointer to v; the nil pointer is PtrV(NilV)
PtrV(v) == [kind |-> "ptr", elem |-> v]
cteExpr(e, cte) == [kind |-> "cteExpr", expr |-> e, cte |-> cte]
notExpr(e) == [kind |-> "not", expr |-> e]

\* variant: a negation is wrapped once more
Not_stacked(e) == notExpr(e)

\* Not(e): the operand of a negation, and the negation of anything else
Not(e) == IF e.kind = "not" THEN e.expr ELSE notExpr(e)

\* the keys the model uses in maps, in ascending byte order (sort.Strings)
KeyOrder == <<"a", "b", "id">>

getSortedKeys(m) == SelectSeq(KeyOrder, LAMBDA k : k \in DOMAIN m)

RECURSIVE Join(_, _)
\* strings.Join over texts
Join(texts, sep) ==
    IF texts = <<>> THEN <<>>
    ELSE IF Len(texts) = 1 THEN texts[1]
    ELSE texts[1] \o WriteString(<<>>, sep) \o Join(Tail(texts), sep)

RECURSIVE JoinStrings(_, _)
\* strings.Join over plain strings, giving a text
JoinStrings(strs, sep) ==
    IF strs = <<>> THEN <<>>
    ELSE IF Len(strs) = 1 THEN WriteString(<<>>, strs[1])
    ELSE WriteString(WriteString(<<>>, strs[1]), sep) \o JoinStrings(Tail(strs), sep)

RECURSIVE Placeholders(_)
Placeholders(count) ==
    IF count < 1 THEN <<>>
    ELSE IF count = 1 THEN <<Q(0)>>
    ELSE <<Q(0), Lit(",")>> \o Placeholders(count - 1)

----------------------------------------------------------------------------
(* Rendering of fragments *)

RECURSIVE ToSql(_), toSqlRaw(_), nestedToSql(_), appendToSqlFrom(_, _, _, _),
          exprLoop(_, _, _, _, _), conjLoop(_, _, _), LtLoop(_, _, _, _, _),
          EqLoop(_, _, _, _, _), clearEmptyValue(_), LikeLoop(_, _, _, _, _)

\* variant: the args of a part are put before the args collected so far
appendPart_prepend(acc, i, sep, r) ==
    IF r.err /= NoErr THEN [w |-> acc.w, args |-> <<>>, err |-> r.err]
    ELSE IF Len(r.sql) = 0 THEN acc
    ELSE [w |-> (IF i > 1 THEN WriteString(acc.w, sep) ELSE acc.w) \o r.sql,
          args |-> r.args \o acc.args, err |-> NoErr]

\* one iteration of the loop of appendToSql, r being nestedToSql(parts[i]):
\* acc is the writer, the args so far and the error returned
appendPart(acc, i, sep, r) ==
    IF r.err /= NoErr THEN [w |-> acc.w, args |-> <<>>, err |-> r.err]
    ELSE IF Len(r.sql) = 0 THEN acc
    ELSE [w |-> (IF i > 1 THEN WriteString(acc.w, sep) ELSE acc.w) \o r.sql,
          args |-> acc.args \o r.args, err |-> NoErr]

appendToSqlFrom(parts, i, acc, sep) ==
    IF i > Len(parts) \/ acc.err /= NoErr THEN acc
    ELSE appendToSqlFrom(parts, i + 1,
                         appendPart(acc, i, sep, nestedToSql(parts[i])), sep)

appendToSql(parts, w, sep, args) ==
    appendToSqlFrom(parts, 1, [w |-> w, args |-> args, err |-> NoErr], sep)

\* variant: every nested fragment renders through its formatted ToSql
nestedToSql_formatted(s) == ToSql(s)

nestedToSql(s) == IF s.kind \in RawKinds THEN toSqlRaw(s) ELSE ToSql(s)

part_ToSql(p) ==
    CASE p.pred.kind = "nil" -> R(<<>>, <<>>, NoErr)
      [] IsSqlizer(p.pred) -> nestedToSql(p.pred)
      [] p.pred.kind = "string" -> R(p.pred.sql, p.args, NoErr)
      [] p.pred.kind = "int" -> R(<<Lit(ToString(p.pred.v))>>, p.args, NoErr)
      [] OTHER -> R(<<>>, <<>>, "expected value or Sqlizer")

wherePart_ToSql(p) ==
    CASE p.pred.kind = "nil" -> R(<<>>, <<>>, NoErr)
      [] p.pred.kind \in RawKinds -> toSqlRaw(p.pred)
      [] IsSqlizer(p.pred) -> ToSql(p.pred)
      [] p.pred.kind = "string" -> R(p.pred.sql, p.args, NoErr)
      [] OTHER -> R(<<>>, <<>>, "expected string-keyed map or string")

\* index of the first '?' of sp, 0 when there is none (strings.Index)
IndexQ(sp) ==
    IF \E i \in 1..Len(sp) : sp[i].k = "q"
    THEN CHOOSE i \in 1..Len(sp) : sp[i].k = "q" /\ \A j \in 1..(i - 1) : sp[j].k /= "q"
    ELSE 0

\* the Sqlizer branch of the loop of expr.ToSql, r being ap[0].ToSql() and i
\* the index of the placeholder
\* variant: the placeholder stays in front of the text of the fragment
exprSqlizer_keepMark(sp, i, ap, buf, args, r) ==
    exprLoop(SubSeq(sp, i + 1, Len(sp)), Tail(ap),
             buf \o SubSeq(sp, 1, i) \o r.sql, args \o r.args, r.err)

exprSqlizer(sp, i, ap, buf, args, r) ==
    exprLoop(SubSeq(sp, i + 1, Len(sp)), Tail(ap),
             buf \o SubSeq(sp, 1, i - 1) \o r.sql, args \o r.args, r.err)

\* one iteration of the loop of expr.ToSql with the placeholder at i
exprStep(sp, i, ap, buf, args, err) ==
    IF Len(sp) > i /\ sp[i + 1].k = "q"
    THEN exprLoop(SubSeq(sp, i + 2, Len(sp)), ap, buf \o SubSeq(sp, 1, i + 1), args, err)
    ELSE IF IsSqlizer(ap[1])
         THEN exprSqlizer(sp, i, ap, buf, args, ToSql(ap[1]))
         ELSE exprLoop(SubSeq(sp, i + 1, Len(sp)), Tail(ap),
                       buf \o SubSeq(sp, 1, i), Append(args, ap[1]), err)

exprLoop(sp, ap, buf, args, err) ==
    IF ~(err = NoErr /\ Len(ap) > 0 /\ Len(sp) > 0) \/ IndexQ(sp) = 0
    THEN R(buf \o sp, args \o ap, err)
    ELSE exprStep(sp, IndexQ(sp), ap, buf, args, err)

expr_ToSql(e) ==
    IF \A i \in 1..Len(e.args) : ~IsSqlizer(e.args[i]) /\ ~isListType(e.args[i])
    THEN R(e.sql, e.args, NoErr)
    ELSE exprLoop(e.sql, e.args, <<>>, <<>>, NoErr)

\* fmt.Sprintf(pre + "%s" + post, sql) when the inner ToSql gave no error
Wrapped(r, pre, post) ==
    IF r.err = NoErr
    THEN R(WriteString(WriteString(<<>>, pre) \o r.sql, post), r.args, r.err)
    ELSE r

aliasExpr_ToSql(e) == Wrapped(ToSql(e.expr), "(", ") AS " \o e.alias)
sumExpr_ToSql(e) == Wrapped(ToSql(e.expr), "SUM(", ")")
countExpr_ToSql(e) == Wrapped(ToSql(e.expr), "COUNT(", ")")
minExpr_ToSql(e) == Wrapped(ToSql(e.expr), "MIN(", ")")
maxExpr_ToSql(e) == Wrapped(ToSql(e.expr), "MAX(", ")")
avgExpr_ToSql(e) == Wrapped(ToSql(e.expr), "AVG(", ")")
existsExpr_ToSql(e) == Wrapped(ToSql(e.expr), "EXISTS (", ")")
notExistsExpr_ToSql(e) == Wrapped(ToSql(e.expr), "NOT EXISTS (", ")")
notExpr_ToSql(e) == Wrapped(ToSql(e.expr), "NOT (", ")")
cteExpr_ToSql(e) == Wrapped(ToSql(e.expr), e.cte \o " AS (", ")")

\* the Sqlizer case of inExpr.ToSql and notInExpr.ToSql, r being v.ToSql()
inSqlizer(e, inOpr, r) ==
    IF r.err = NoErr /\ r.sql /= <<>>
    THEN R(WriteString(WriteString(<<>>, e.column \o inOpr) \o r.sql, ")"), r.args, r.err)
    ELSE r

\* variant: a list of one element is bound whole
inLike_ToSql_wholeList(e, inOpr, eq, any) ==
    IF IsSqlizer(e.expr) THEN inSqlizer(e, inOpr, ToSql(e.expr))
    ELSE IF isListType(e.expr) /\ Len(e.expr.elems) = 0 THEN R(<<>>, <<>>, NoErr)
    ELSE R(<<Lit(e.column \o eq), Q(GhostOf(e.expr))>>, <<e.expr>>, NoErr)

\* inExpr.ToSql and notInExpr.ToSql: eq is "=" or "<>", any is "=ANY(" or "<>ALL("
inLike_ToSql(e, inOpr, eq, any) ==
    IF IsSqlizer(e.expr) THEN inSqlizer(e, inOpr, ToSql(e.expr))
    ELSE IF isListType(e.expr)
         THEN IF Len(e.expr.elems) = 0 THEN R(<<>>, <<>>, NoErr)
              ELSE IF Len(e.expr.elems) = 1
                   THEN R(<<Lit(e.column \o eq), Q(GhostOf(e.expr.elems[1]))>>,
                          <<e.expr.elems[1]>>, NoErr)
                   ELSE R(<<Lit(e.column \o any), Q(0), Lit(")")>>, <<e.expr>>, NoErr)
         ELSE R(<<Lit(e.column \o eq), Q(GhostOf(e.expr))>>, <<e.expr>>, NoErr)

inExpr_ToSql(e) == inLike_ToSql(e, " IN (", "=", "=ANY(")
notInExpr_ToSql(e) == inLike_ToSql(e, " NOT IN (", "<>", "<>ALL(")

\* variant: a member that renders to the empty text is joined like the others
conjPart_keepEmpty(acc, r) ==
    IF r.err /= NoErr THEN [sqlParts |-> <<>>, args |-> <<>>, err |-> r.err]
    ELSE [sqlParts |-> Append(acc.sqlParts, r.sql), args |-> acc.args \o r.args,
          err |-> NoErr]

\* one iteration of the loop of conj.join, r being nestedToSql(sqlizer)
conjPart(acc, r) ==
    IF r.err /= NoErr THEN [sqlParts |-> <<>>, args |-> <<>>, err |-> r.err]
    ELSE IF r.sql /= <<>>
         THEN [sqlParts |-> Append(acc.sqlParts, r.sql), args |-> acc.args \o r.args,
               err |-> NoErr]
         ELSE acc

conjLoop(c, i, acc) ==
    IF i > Len(c) \/ acc.err /= NoErr THEN acc
    ELSE conjLoop(c, i + 1, conjPart(acc, nestedToSql(c[i])))

\* what conj.join returns after its loop l
conjResult(l, sep) ==
    IF l.err /= NoErr THEN Fail(l.err)
    ELSE IF Len(l.sqlParts) > 0
         THEN R(<<Lit("(")>> \o Join(l.sqlParts, sep) \o <<Lit(")")>>, l.args, NoErr)
         ELSE R(<<>>, l.args, NoErr)

conj_join(c, sep, defaultExpr) ==
    IF Len(c) = 0 THEN R(<<Lit(defaultExpr)>>, <<>>, NoErr)
    ELSE conjResult(conjLoop(c, 1, [sqlParts |-> <<>>, args |-> <<>>, err |-> NoErr]), sep)

sqlTrue == "(1=1)"
sqlFalse == "(1=0)"

And_ToSql(a) == conj_join(a.parts, " AND ", sqlTrue)
Or_ToSql(o) == conj_join(o.parts, " OR ", sqlFalse)

LtLoop(m, keys, opr, exprs, args) ==
    IF keys = <<>> THEN R(Join(exprs, " AND "), args, NoErr)
    ELSE IF m[Head(keys)].kind = "nil"
         THEN Fail("cannot use null with less than or greater than operators")
         ELSE IF isListType(m[Head(keys)])
         THEN Fail("cannot use array or slice with less than or greater than operators")
         ELSE LtLoop(m, Tail(keys), opr,
                     Append(exprs, <<Lit(Head(keys) \o " " \o opr \o " "),
                                     Q(GhostOf(m[Head(keys)]))>>),
                     Append(args, m[Head(keys)]))

Lt_toSql(lt, opposite, orEq) ==
    LtLoop(lt, getSortedKeys(lt),
           (IF opposite THEN ">" ELSE "<") \o (IF orEq THEN "=" ELSE ""), <<>>, <<>>)

\* variant: lists are accepted
likeCheck_nullOnly(val) ==
    IF val.kind = "nil" THEN "cannot use null with like operators" ELSE NoErr

\* the error Like.toSql returns with for the value of a key, if any
likeCheck(val) ==
    IF val.kind = "nil" THEN "cannot use null with like operators"
    ELSE IF isListType(val) THEN "cannot use array or slice with like operators"
    ELSE NoErr

\* the loop of Like.toSql over the keys in the order of the map iteration; the
\* returns on an error are naked: no text, and the args appended so far
LikeLoop(lk, keys, opr, exprs, args) ==
    IF keys = <<>> THEN R(Join(exprs, " AND "), args, NoErr)
    ELSE IF likeCheck(lk[Head(keys)]) /= NoErr
         THEN R(<<>>, args, likeCheck(lk[Head(keys)]))
         ELSE LikeLoop(lk, Tail(keys), opr,
                       Append(exprs, <<Lit(Head(keys) \o " " \o opr \o " "),
                                       Q(GhostOf(lk[Head(keys)]))>>),
                       Append(args, lk[Head(keys)]))

Like_toSql(lk, order, opr) == LikeLoop(lk, order, opr, <<>>, <<>>)

\* reflect: a nil pointer is nil, another pointer is what it points to
Deref(val) == IF val.kind = "ptr" THEN val.elem ELSE val

\* variant: a list is bound whole, like a scalar
EqTerm_listAsScalar(key, val, useNotOpr) ==
    IF val.kind = "nil"
    THEN R(<<Lit(key \o " " \o (IF useNotOpr THEN "IS NOT" ELSE "IS") \o " NULL")>>,
           <<>>, NoErr)
    ELSE IF val.kind = "select"
    THEN Wrapped(toSqlRaw(val),
                 key \o " " \o (IF useNotOpr THEN "NOT IN" ELSE "IN") \o " (", ")")
    ELSE R(<<Lit(key \o " " \o (IF useNotOpr THEN "<>" ELSE "=") \o " "),
             Q(GhostOf(val))>>, <<val>>, NoErr)

\* the expression and the args one key adds in the loop of Eq.toSQL, val being
\* the value after the pointer has been followed
EqTerm(key, val, useNotOpr) ==
    IF val.kind = "nil"
    THEN R(<<Lit(key \o " " \o (IF useNotOpr THEN "IS NOT" ELSE "IS") \o " NULL")>>,
           <<>>, NoErr)
    ELSE IF isListType(val)
    THEN IF Len(val.elems) = 0
         THEN R(<<Lit(IF useNotOpr THEN sqlTrue ELSE sqlFalse)>>, <<>>, NoErr)
         ELSE R(<<Lit(key \o " " \o (IF useNotOpr THEN "NOT IN" ELSE "IN") \o " (")>>
                \o Placeholders(Len(val.elems)) \o <<Lit(")")>>, val.elems, NoErr)
    ELSE IF val.kind = "select"
    THEN Wrapped(toSqlRaw(val),
                 key \o " " \o (IF useNotOpr THEN "NOT IN" ELSE "IN") \o " (", ")")
    ELSE R(<<Lit(key \o " " \o (IF useNotOpr THEN "<>" ELSE "=") \o " "),
             Q(GhostOf(val))>>, <<val>>, NoErr)

\* the loop of Eq.toSQL over the sorted keys, t being the term of the first
EqStep(eq, keys, useNotOpr, exprs, args, t) ==
    IF t.err /= NoErr THEN Fail(t.err)
    ELSE EqLoop(eq, Tail(keys), useNotOpr, Append(exprs, t.sql), args \o t.args)

EqLoop(eq, keys, useNotOpr, exprs, args) ==
    IF keys = <<>> THEN R(Join(exprs, " AND "), args, NoErr)
    ELSE EqStep(eq, keys, useNotOpr, exprs, args,
                EqTerm(Head(keys), Deref(eq[Head(keys)]), useNotOpr))

Eq_toSQL(eq, useNotOpr) ==
    IF DOMAIN eq = {} THEN R(<<Lit(sqlTrue)>>, <<>>, NoErr)
    ELSE EqLoop(eq, getSortedKeys(eq), useNotOpr, <<>>, <<>>)

Eq_ToSql(eq) == Eq_toSQL(eq, FALSE)
NotEq_ToSql(neq) == Eq_toSQL(neq, TRUE)

\* reflect.Value.IsZero of a value that is not nil
IsZero(v) ==
    CASE v.kind = "int" -> v.v = 0
      [] v.kind = "string" -> v.sql = <<>>
      [] v.kind = "bool" -> ~v.v
      [] v.kind = "ptr" -> v.elem.kind = "nil"
      [] OTHER -> FALSE

\* variant: every bound that is not nil is present
hasBound_nonNil(v) == v.kind /= "nil"

\* hasStart and hasEnd of rangeExpr.ToSql
hasBound(v) == v.kind /= "nil" /\ ~IsZero(v)

rangeExpr_ToSql(e) ==
    IF ~hasBound(e.start) /\ ~hasBound(e.end) THEN R(<<>>, <<>>, NoErr)
    ELSE IF hasBound(e.start) /\ hasBound(e.end)
    THEN ToSql(Expr(<<Lit(e.column \o " BETWEEN "), Q(GhostOf(e.start)),
                      Lit(" AND "), Q(GhostOf(e.end))>>, <<e.start, e.end>>))
    ELSE IF hasBound(e.start)
    THEN ToSql(LtMap((e.column :> e.start), TRUE, TRUE))
    ELSE ToSql(LtMap((e.column :> e.end), FALSE, TRUE))

\* variant: a list with an element that is not empty is kept whole
clearList_whole(v, newSlice) == IF Len(newSlice) /= 0 THEN v ELSE NilV

\* the Array/Slice case of clearEmptyValue, newSlice being the elements of v
\* that are not cleared
clearList(v, newSlice) == IF Len(newSlice) /= 0 THEN ListV(newSlice) ELSE NilV

clearEmptyValue(v) ==
    IF v.kind = "nil" THEN NilV
    ELSE IF v.kind = "list"
    THEN clearList(v, SelectSeq(v.elems, LAMBDA x : clearEmptyValue(x) /= NilV))
    ELSE IF ~IsZero(v) THEN v ELSE NilV

\* the Eq that EqNotEmpty.ToSql builds
notEmptyVals(eq) ==
    [k \in {x \in DOMAIN eq : clearEmptyValue(eq[x]) /= NilV} |-> clearEmptyValue(eq[k])]

EqNotEmpty_ToSql(eq) == Eq_ToSql(notEmptyVals(eq))

----------------------------------------------------------------------------
(* CASE expressions *)

\* the SQL type name, "" standing for the error; a list is a slice of the type
\* of its first element, and an empty list a []any
RECURSIVE sqlTypeNameHelper(_)
sqlTypeNameHelper(v) ==
    CASE v.kind = "int" -> "bigint"
      [] v.kind = "string" -> "text"
      [] v.kind = "bool" -> "boolean"
      [] v.kind = "bytes" -> "smallint[]"
      [] v.kind = "list" ->
             IF v.elems /= <<>> /\ sqlTypeNameHelper(v.elems[1]) /= ""
             THEN sqlTypeNameHelper(v.elems[1]) \o "[]"
             ELSE ""
      [] OTHER -> ""

\* the whenPart with its when set, before then is looked at
whenOnly(when) ==
    [when |-> newPart(when, <<>>), then |-> NilV, thenValue |-> NilV, nullThen |-> FALSE]

newWhenPart(when, then) ==
    IF IsSqlizer(then) THEN [whenOnly(when) EXCEPT !.then = newPart(then, <<>>)]
    ELSE IF then.kind = "nil" THEN [whenOnly(when) EXCEPT !.nullThen = TRUE]
    ELSE IF sqlTypeNameHelper(then) = "" THEN [whenOnly(when) EXCEPT !.thenValue = then]
    ELSE [whenOnly(when) EXCEPT !.then =
              newPart(Expr(<<Lit("CAST("), Q(GhostOf(then)),
                             Lit(" AS " \o sqlTypeNameHelper(then) \o ")")>>,
                           <<then>>), <<>>)]

\* sqlizerBuffer: the embedded bytes.Buffer, args and err
NewBuffer == [buf |-> <<>>, args |-> <<>>, err |-> NoErr]

BufWriteString(bf, s) == [bf EXCEPT !.buf = WriteString(bf.buf, s)]

\* WriteSql after its call of nestedToSql(item), which gave r
bufferWrite(bf, r) ==
    IF r.err /= NoErr THEN [bf EXCEPT !.err = r.err]
    ELSE [buf |-> WriteString(bf.buf \o r.sql, " "), args |-> bf.args \o r.args,
          err |-> NoErr]

sqlizerBuffer_WriteSql(bf, item) ==
    IF bf.err /= NoErr THEN bf ELSE bufferWrite(bf, nestedToSql(item))

sqlizerBuffer_ToSql(bf) == R(bf.buf, bf.args, bf.err)

\* sql.WriteString(Placeholders(1) + " "); sql.args = append(sql.args, value)
bufferValue(bf, value) ==
    [bf EXCEPT !.buf = WriteString(bf.buf \o <<Q(GhostOf(value))>>, " "),
               !.args = Append(bf.args, value)]

\* a when-part without then, thenValue and nullThen
thenMissing(p) == p.then.kind = "nil" /\ p.thenValue.kind = "nil" /\ ~p.nullThen

\* the THEN half of one iteration of the loop over d.WhenParts
caseThen(bf, p) ==
    IF p.then.kind /= "nil" THEN sqlizerBuffer_WriteSql(BufWriteString(bf, "THEN "), p.then)
    ELSE bufferValue(BufWriteString(bf, "THEN "), p.thenValue)

RECURSIVE caseWhenLoop(_, _, _)
\* the loop over d.WhenParts; a when-part without then ends it
caseWhenLoop(parts, i, bf) ==
    IF i > Len(parts) \/ thenMissing(parts[i]) THEN bf
    ELSE caseWhenLoop(parts, i + 1,
             caseThen(sqlizerBuffer_WriteSql(BufWriteString(bf, "WHEN "), parts[i].when),
                      parts[i]))

\* the ELSE part of caseData.ToSql
caseElse(d, bf) ==
    IF d.Else.kind /= "nil" THEN sqlizerBuffer_WriteSql(BufWriteString(bf, "ELSE "), d.Else)
    ELSE IF d.ElseValue.kind /= "nil" \/ d.ElseNull
         THEN bufferValue(BufWriteString(bf, "ELSE "), d.ElseValue)
         ELSE bf

\* "CASE " and the optional subject
caseWhat(d) ==
    IF d.What.kind /= "nil"
    THEN sqlizerBuffer_WriteSql(BufWriteString(NewBuffer, "CASE "), d.What)
    ELSE BufWriteString(NewBuffer, "CASE ")

\* variant: a CASE without WHEN is rendered
caseData_ToSql_noWhenCheck(d) ==
    sqlizerBuffer_ToSql(
        BufWriteString(caseElse(d, caseWhenLoop(d.WhenParts, 1, caseWhat(d))), "END"))

caseData_ToSql(d) ==
    IF Len(d.WhenParts) = 0
    THEN Fail("case expression must contain at lease one WHEN clause")
    ELSE IF \E i \in 1..Len(d.WhenParts) : thenMissing(d.WhenParts[i])
    THEN Fail("When clause must have Then part")
    ELSE sqlizerBuffer_ToSql(
             BufWriteString(caseElse(d, caseWhenLoop(d.WhenParts, 1, caseWhat(d))), "END"))

EmptyCase == [kind |-> "case",
              d |-> [What |-> NilV, WhenParts |-> <<>>, Else |-> NilV,
                     ElseValue |-> NilV, ElseNull |-> FALSE]]

CaseBuilder_what(c, e) == [c EXCEPT !.d.What = newPart(e, <<>>)]
CaseBuilder_When(c, when, then) ==
    [c EXCEPT !.d.WhenParts = Append(@, newWhenPart(when, then))]
\* variant: Else(nil) leaves the builder as it is
CaseBuilder_Else_noNull(c, e) ==
    IF IsSqlizer(e) THEN [c EXCEPT !.d.Else = newPart(e, <<>>)]
    ELSE [c EXCEPT !.d.ElseValue = e]

CaseBuilder_Else(c, e) ==
    IF IsSqlizer(e) THEN [c EXCEPT !.d.Else = newPart(e, <<>>)]
    ELSE IF e.kind = "nil" THEN [c EXCEPT !.d.ElseNull = TRUE]
    ELSE [c EXCEPT !.d.ElseValue = e]

----------------------------------------------------------------------------
(* SELECT *)

\* A uint64 is held as eight base-256 limbs, the low limb first, so that its
\* arithmetic keeps the width of the type.
UintLimbs == 8
LimbBase == 256

RECURSIVE limbsOf(_, _), mulColumn(_, _, _, _), mulLimbs(_, _, _, _, _)
RECURSIVE quotTen(_, _), remTen(_, _), decimal(_)

\* the k low limbs of a natural number n
limbsOf(n, k) ==
    IF k = 0 THEN <<>> ELSE <<n % LimbBase>> \o limbsOf(n \div LimbBase, k - 1)
\* uint64(n) of a constant n
uint64(n) == limbsOf(n, UintLimbs)

limbAt(x, i) == IF i \in DOMAIN x THEN x[i] ELSE 0

\* the sum of the limb products x[i] * y[k+1-i] that fall on limb k
mulColumn(x, y, k, i) ==
    IF i > k THEN 0 ELSE limbAt(x, i) * limbAt(y, k + 1 - i) + mulColumn(x, y, k, i + 1)

\* the limbs k..width of x * y, carry coming in from limb k-1; what would carry
\* out of the last limb is dropped
mulStep(x, y, k, s, width) ==
    <<s % LimbBase>> \o mulLimbs(x, y, k + 1, s \div LimbBase, width)
mulLimbs(x, y, k, carry, width) ==
    IF k > width THEN <<>> ELSE mulStep(x, y, k, mulColumn(x, y, k, 1) + carry, width)

\* the product as an integer: on twice the limbs nothing is dropped
mulUint64_exact(x, y) == mulLimbs(x, y, 1, 0, 2 * UintLimbs)

\* x * y of two uint64: the low 64 bits of the product
mulUint64(x, y) == mulLimbs(x, y, 1, 0, UintLimbs)

\* x - 1 of a uint64
RECURSIVE decUint64(_)
decUint64(x) ==
    IF x = <<>> THEN <<>>
    ELSE IF Head(x) > 0 THEN <<Head(x) - 1>> \o Tail(x)
    ELSE <<LimbBase - 1>> \o decUint64(Tail(x))

isZeroLimbs(x) == \A i \in DOMAIN x : x[i] = 0
\* x > 1 of a uint64
greaterThanOne(x) == ~isZeroLimbs(x) /\ x /= limbsOf(1, Len(x))

\* the quotient and the remainder by ten, from the high limb down with the remainder so far
quotTen(x, rem) ==
    IF x = <<>> THEN <<>>
    ELSE quotTen(SubSeq(x, 1, Len(x) - 1), (rem * LimbBase + x[Len(x)]) % 10)
         \o <<(rem * LimbBase + x[Len(x)]) \div 10>>
remTen(x, rem) ==
    IF x = <<>> THEN rem
    ELSE remTen(SubSeq(x, 1, Len(x) - 1), (rem * LimbBase + x[Len(x)]) % 10)
\* the decimal digits of a number, none for zero
decimal(x) ==
    IF isZeroLimbs(x) THEN "" ELSE decimal(quotTen(x, 0)) \o ToString(remTen(x, 0))
\* fmt's %d of an unsigned integer
formatUint(x) == IF isZeroLimbs(x) THEN "0" ELSE decimal(x)

PaginatorTypeUndefined == 0
PaginatorTypeByPage == 1
PaginatorTypeByID == 2

NoPaginator ==
    [limit |-> uint64(0), page |-> uint64(0), lastID |-> 0, pType |-> PaginatorTypeUndefined]
PaginatorByPage(pageSize, pageNum) ==
    [limit |-> pageSize, page |-> pageNum, lastID |-> 0, pType |-> PaginatorTypeByPage]
PaginatorByID(limit, lastID) ==
    [limit |-> limit, page |-> uint64(0), lastID |-> lastID, pType |-> PaginatorTypeByID]

\* the zero selectData with the placeholder format of the statement builder
EmptySelectData(f) ==
    [PlaceholderFormat |-> f, Prefixes |-> <<>>, Options |-> <<>>, Columns |-> <<>>,
     From |-> NilV, Joins |-> <<>>, WhereParts |-> <<>>, GroupBys |-> <<>>,
     HavingParts |-> <<>>, OrderByParts |-> <<>>, Limit |-> "", Offset |-> "",
     Suffixes |-> <<>>, Paginator |-> NoPaginator, IDColumn |-> ""]

\* A toSqlRaw body is a sequence of clauses run in order on st: the buffer, the
\* args, and the error the body has returned with (nothing is written after a
\* return).  Each clause stands for one block of the body, done only if on:
\*   CParts:   WriteString(pre); args, err = appendToSql(parts, sql, sep, args)
\*   CStrings: WriteString(pre); WriteString(strings.Join(strs, sep)); WriteString(post)
\*   CPut:     WriteString(s)
\*   CStop:    return "", nil, err
\*   CSet:     writeSetClauses of UPDATE;  CSource: the source of INSERT
Start == [w |-> <<>>, args |-> <<>>, err |-> NoErr]
CParts(on, pre, parts, sep) ==
    [op |-> "parts", on |-> on, pre |-> pre, parts |-> parts, sep |-> sep]
CStrings(on, pre, strs, sep, post) ==
    [op |-> "strings", on |-> on, pre |-> pre, strs |-> strs, sep |-> sep, post |-> post]
CPut(on, s) == [op |-> "put", on |-> on, s |-> s]
CStop(on, err) == [op |-> "stop", on |-> on, err |-> err]
CSet(d) == [op |-> "set", on |-> TRUE, d |-> d]
CSource(d) == [op |-> "source", on |-> TRUE, d |-> d]

RECURSIVE runClauses(_, _, _), setClausesLoop(_, _, _), insertValuesLoop(_, _, _)

\* variant: the text written so far is returned with the error
Finish_partial(st) == R(st.w, st.args, st.err)

\* return "", nil, err on an error, and the text with its args otherwise
Finish(st) == IF st.err /= NoErr THEN Fail(st.err) ELSE R(st.w, st.args, NoErr)

\* the offset of a paginator by page: limit*(page-1), in uint64
paginatorOffset(p) == formatUint(mulUint64(p.limit, decUint64(p.page)))

\* the where-parts toSqlRaw renders: a copy of d.WhereParts plus the id predicate
selectWhereParts(d) ==
    IF d.Paginator.pType = PaginatorTypeByID
    THEN Append(d.WhereParts, Gt((d.IDColumn :> IntV(d.Paginator.lastID))))
    ELSE d.WhereParts

selectData_toSqlRaw(d) ==
    IF Len(d.Columns) = 0
    THEN Fail("select statements must have at least one result column")
    ELSE Finish(runClauses(
        <<CParts(Len(d.Prefixes) > 0, "", d.Prefixes, " "),
          CPut(Len(d.Prefixes) > 0, " "),
          CPut(TRUE, "SELECT "),
          CStrings(Len(d.Options) > 0, "", d.Options, " ", " "),
          CParts(TRUE, "", d.Columns, ", "),
          CParts(d.From.kind /= "nil", " FROM ", <<d.From>>, ""),
          CParts(Len(d.Joins) > 0, " ", d.Joins, " "),
          CStop(d.Paginator.pType = PaginatorTypeByID /\ d.IDColumn = "",
                "IDColumn is required for pagination by ID"),
          CParts(Len(selectWhereParts(d)) > 0, " WHERE ", selectWhereParts(d), " AND "),
          CStrings(Len(d.GroupBys) > 0, " GROUP BY ", d.GroupBys, ", ", ""),
          CParts(Len(d.HavingParts) > 0, " HAVING ", d.HavingParts, " AND "),
          CParts(Len(d.OrderByParts) > 0, " ORDER BY ", d.OrderByParts, ", "),
          CStop(d.Limit /= "" /\ d.Paginator.pType /= PaginatorTypeUndefined,
                "limit and paginator cannot be used together"),
          CStrings(d.Limit /= "", " LIMIT ", <<d.Limit>>, "", ""),
          CStop(d.Offset /= "" /\ d.Paginator.pType /= PaginatorTypeUndefined,
                "offset and paginator cannot be used together"),
          CStrings(d.Offset /= "", " OFFSET ", <<d.Offset>>, "", ""),
          CStrings(d.Paginator.pType /= PaginatorTypeUndefined, " LIMIT ",
                   IF d.Paginator.pType /= PaginatorTypeUndefined
                   THEN <<formatUint(d.Paginator.limit)>> ELSE <<>>, "", ""),
          CStrings(d.Paginator.pType = PaginatorTypeByPage
                       /\ greaterThanOne(d.Paginator.page), " OFFSET ",
                   IF d.Paginator.pType = PaginatorTypeByPage
                   THEN <<paginatorOffset(d.Paginator)>> ELSE <<>>, "", ""),
          CParts(Len(d.Suffixes) > 0, " ", d.Suffixes, " ")>>, 1, Start))

\* the formatting pass of selectData.ToSql and of the CTE's toSql: what the raw
\* rendering returned is returned as it is on an error
FormatRaw(f, r) ==
    IF r.err /= NoErr THEN r ELSE R(ReplacePlaceholders(f, r.sql), r.args, NoErr)

\* the ToSql of UPDATE, INSERT and DELETE: return "", nil, e on an error of
\* toSqlRaw, and one formatting pass otherwise
Finalize(f, r) ==
    IF r.err /= NoErr THEN Fail(r.err) ELSE R(ReplacePlaceholders(f, r.sql), r.args, NoErr)

selectData_ToSql(d) == FormatRaw(d.PlaceholderFormat, selectData_toSqlRaw(d))

----------------------------------------------------------------------------
(* UPDATE *)

EmptyUpdateData(f) ==
    [PlaceholderFormat |-> f, Prefixes |-> <<>>, Table |-> "", SetClauses |-> <<>>,
     From |-> NilV, WhereParts |-> <<>>, OrderBys |-> <<>>, Limit |-> "", Offset |-> "",
     Suffixes |-> <<>>]

setClause(column, value) == [column |-> column, value |-> value]

\* the Sqlizer case of buildSetClauseSQL, v being nestedToSql(value)
setClauseSqlizer(sc, v) ==
    IF v.err /= NoErr THEN Fail(v.err)
    ELSE IF sc.value.kind = "select"
         THEN R(<<Lit(sc.column \o " = (")>> \o v.sql \o <<Lit(")")>>, v.args, NoErr)
         ELSE R(<<Lit(sc.column \o " = ")>> \o v.sql, v.args, NoErr)

\* variant: the SET value renders through its formatted ToSql
buildSetClauseSQL_formatted(sc) ==
    IF ~IsSqlizer(sc.value)
    THEN R(<<Lit(sc.column \o " = "), Q(GhostOf(sc.value))>>, <<sc.value>>, NoErr)
    ELSE setClauseSqlizer(sc, ToSql(sc.value))

buildSetClauseSQL(sc) ==
    IF ~IsSqlizer(sc.value)
    THEN R(<<Lit(sc.column \o " = "), Q(GhostOf(sc.value))>>, <<sc.value>>, NoErr)
    ELSE setClauseSqlizer(sc, nestedToSql(sc.value))

\* one iteration of the loop of writeSetClauses, r being buildSetClauseSQL(clause)
setClausePart(acc, r) ==
    IF r.err /= NoErr THEN [setSqls |-> <<>>, args |-> <<>>, err |-> r.err]
    ELSE [setSqls |-> Append(acc.setSqls, r.sql), args |-> acc.args \o r.args,
          err |-> NoErr]

setClausesLoop(clauses, i, acc) ==
    IF i > Len(clauses) \/ acc.err /= NoErr THEN acc
    ELSE setClausesLoop(clauses, i + 1, setClausePart(acc, buildSetClauseSQL(clauses[i])))

\* " SET " and the joined clauses, l being the result of the loop
setClausesWrite(st, l) ==
    IF l.err /= NoErr THEN [st EXCEPT !.err = l.err]
    ELSE [w |-> WriteString(st.w, " SET ") \o Join(l.setSqls, ", "), args |-> l.args,
          err |-> NoErr]

updateData_writeSetClauses(d, st) ==
    IF st.err /= NoErr THEN st
    ELSE setClausesWrite(st, setClausesLoop(d.SetClauses, 1,
                                 [setSqls |-> <<>>, args |-> st.args, err |-> NoErr]))

updateData_toSqlRaw(d) ==
    IF d.Table = "" THEN Fail("update statements must specify a table")
    ELSE IF Len(d.SetClauses) = 0
    THEN Fail("update statements must have at least one Set clause")
    ELSE Finish(runClauses(
        <<CParts(Len(d.Prefixes) > 0, "", d.Prefixes, " "),
          CPut(Len(d.Prefixes) > 0, " "),
          CStrings(TRUE, "UPDATE ", <<d.Table>>, "", ""),
          CSet(d),
          CParts(d.From.kind /= "nil", " FROM ", <<d.From>>, ""),
          CParts(Len(d.WhereParts) > 0, " WHERE ", d.WhereParts, " AND "),
          CStrings(Len(d.OrderBys) > 0, " ORDER BY ", d.OrderBys, ", ", ""),
          CStrings(d.Limit /= "", " LIMIT ", <<d.Limit>>, "", ""),
          CStrings(d.Offset /= "", " OFFSET ", <<d.Offset>>, "", ""),
          CParts(Len(d.Suffixes) > 0, " ", d.Suffixes, " ")>>, 1, Start))

updateData_ToSql(d) == Finalize(d.PlaceholderFormat, updateData_toSqlRaw(d))

----------------------------------------------------------------------------
(* INSERT *)

EmptyInsertData(f) ==
    [PlaceholderFormat |-> f, Prefixes |-> <<>>, StatementKeyword |-> "",
     Options |-> <<>>, Into |-> "", Columns |-> <<>>, Values |-> <<>>,
     Suffixes |-> <<>>, Select |-> NilV]

\* a Sqlizer cell of a VALUES row, r being nestedToSql(val)
insertCellSqlizer(acc, r) ==
    IF r.err /= NoErr THEN [strs |-> <<>>, args |-> <<>>, err |-> r.err]
    ELSE [strs |-> Append(acc.strs, r.sql), args |-> acc.args \o r.args, err |-> NoErr]

\* one cell of a VALUES row
insertCell(acc, val) ==
    IF IsSqlizer(val) THEN insertCellSqlizer(acc, nestedToSql(val))
    ELSE [strs |-> Append(acc.strs, <<Q(GhostOf(val))>>), args |-> Append(acc.args, val),
          err |-> NoErr]

RECURSIVE insertRowLoop(_, _, _)
\* one VALUES row: the cell texts and the args so far
insertRowLoop(row, v, acc) ==
    IF v > Len(row) \/ acc.err /= NoErr THEN acc
    ELSE insertRowLoop(row, v + 1, insertCell(acc, row[v]))

\* the row text "(c1,c2,...)" appended to the rows so far
insertRow(acc, row) ==
    IF row.err /= NoErr THEN row
    ELSE [strs |-> Append(acc.strs, <<Lit("(")>> \o Join(row.strs, ",") \o <<Lit(")")>>),
          args |-> row.args, err |-> NoErr]

insertValuesLoop(values, r, acc) ==
    IF r > Len(values) \/ acc.err /= NoErr THEN acc
    ELSE insertValuesLoop(values, r + 1,
             insertRow(acc, insertRowLoop(values[r], 1,
                                [strs |-> <<>>, args |-> acc.args, err |-> NoErr])))

\* "VALUES " and the joined rows, l being the result of the loop
insertValuesWrite(st, l) ==
    IF l.err /= NoErr THEN [st EXCEPT !.err = l.err]
    ELSE [w |-> WriteString(st.w, "VALUES ") \o Join(l.strs, ","), args |-> l.args,
          err |-> NoErr]

insertData_appendValuesToSQL(d, st) ==
    IF st.err /= NoErr THEN st
    ELSE IF Len(d.Values) = 0
    THEN [st EXCEPT !.err = "values for insert statements are not set"]
    ELSE insertValuesWrite(st, insertValuesLoop(d.Values, 1,
                                   [strs |-> <<>>, args |-> st.args, err |-> NoErr]))

\* the select text and args appended, r being d.Select.toSqlRaw()
insertSelectWrite(st, r) ==
    IF r.err /= NoErr THEN [st EXCEPT !.err = r.err]
    ELSE [w |-> st.w \o r.sql, args |-> st.args \o r.args, err |-> NoErr]

insertData_appendSelectToSQL(d, st) ==
    IF st.err /= NoErr THEN st
    ELSE IF d.Select.kind = "nil"
    THEN [st EXCEPT !.err = "select clause for insert statements are not set"]
    ELSE insertSelectWrite(st, toSqlRaw(d.Select))

\* variant: the VALUES rows take precedence when there are any
insertSource_valuesFirst(d, st) ==
    IF Len(d.Values) > 0 THEN insertData_appendValuesToSQL(d, st)
    ELSE insertData_appendSelectToSQL(d, st)

\* the SELECT source takes precedence over the VALUES rows
insertSource(d, st) ==
    IF d.Select.kind /= "nil" THEN insertData_appendSelectToSQL(d, st)
    ELSE insertData_appendValuesToSQL(d, st)

insertData_toSqlRaw(d) ==
    IF d.Into = "" THEN Fail("insert statements must specify a table")
    ELSE IF Len(d.Values) = 0 /\ d.Select.kind = "nil"
    THEN Fail("insert statements must have at least one set of values or select clause")
    ELSE Finish(runClauses(
        <<CParts(Len(d.Prefixes) > 0, "", d.Prefixes, " "),
          CPut(Len(d.Prefixes) > 0, " "),
          CPut(d.StatementKeyword = "", "INSERT "),
          CStrings(d.StatementKeyword /= "", "", <<d.StatementKeyword>>, "", " "),
          CStrings(Len(d.Options) > 0, "", d.Options, " ", " "),
          CStrings(TRUE, "INTO ", <<d.Into>>, "", " "),
          CStrings(Len(d.Columns) > 0, "(", d.Columns, ",", ") "),
          CSource(d),
          CParts(Len(d.Suffixes) > 0, " ", d.Suffixes, " ")>>, 1, Start))

insertData_ToSql(d) == Finalize(d.PlaceholderFormat, insertData_toSqlRaw(d))

----------------------------------------------------------------------------
(* DELETE *)

EmptyDeleteData(f) ==
    [PlaceholderFormat |-> f, Prefixes |-> <<>>, From |-> "", WhereParts |-> <<>>,
     OrderBys |-> <<>>, Limit |-> "", Offset |-> "", Suffixes |-> <<>>]

deleteData_toSqlRaw(d) ==
    IF d.From = "" THEN Fail("delete statements must specify a From table")
    ELSE Finish(runClauses(
        <<CParts(Len(d.Prefixes) > 0, "", d.Prefixes, " "),
          CPut(Len(d.Prefixes) > 0, " "),
          CStrings(TRUE, "DELETE FROM ", <<d.From>>, "", ""),
          CParts(Len(d.WhereParts) > 0, " WHERE ", d.WhereParts, " AND "),
          CStrings(Len(d.OrderBys) > 0, " ORDER BY ", d.OrderBys, ", ", ""),
          CStrings(d.Limit /= "", " LIMIT ", <<d.Limit>>, "", ""),
          CStrings(d.Offset /= "", " OFFSET ", <<d.Offset>>, "", ""),
          CParts(Len(d.Suffixes) > 0, " ", d.Suffixes, " ")>>, 1, Start))

deleteData_ToSql(d) == Finalize(d.PlaceholderFormat, deleteData_toSqlRaw(d))

----------------------------------------------------------------------------
(* Common table expressions *)

EmptyCteData(f) ==
    [PlaceholderFormat |-> f, Recursive |-> FALSE, CurrentCteName |-> "",
     Ctes |-> <<>>, Statement |-> NilV]

commonTableExpressionsData_toSql(d) ==
    IF Len(d.Ctes) = 0
    THEN Fail("common table expressions statements must have at least one label and subquery")
    ELSE IF d.Statement.kind = "nil"
    THEN Fail("common table expressions must one of the following final statement")
    ELSE FormatRaw(d.PlaceholderFormat, Finish(runClauses(
        <<CPut(TRUE, "WITH "),
          CPut(d.Recursive, "RECURSIVE "),
          CParts(TRUE, "", d.Ctes, ", "),
          CParts(TRUE, " ", <<d.Statement>>, "")>>, 1, Start)))

\* one clause of a toSqlRaw body
applyClause(st, c) ==
    IF ~c.on THEN st
    ELSE CASE c.op = "parts" -> appendToSql(c.parts, WriteString(st.w, c.pre), c.sep, st.args)
           [] c.op = "strings" ->
                  [st EXCEPT !.w = WriteString(WriteString(st.w, c.pre)
                                                   \o JoinStrings(c.strs, c.sep), c.post)]
           [] c.op = "put" -> [st EXCEPT !.w = WriteString(st.w, c.s)]
           [] c.op = "stop" -> [st EXCEPT !.err = c.err]
           [] c.op = "set" -> updateData_writeSetClauses(c.d, st)
           [] c.op = "source" -> insertSource(c.d, st)

\* the clauses from the i-th on, until one returns with an error
runClauses(cs, i, st) ==
    IF i > Len(cs) \/ st.err /= NoErr THEN st
    ELSE runClauses(cs, i + 1, applyClause(st, cs[i]))

----------------------------------------------------------------------------
(* Dispatch on the dynamic type of a Sqlizer *)

toSqlRaw(s) ==
    CASE s.kind = "select" -> selectData_toSqlRaw(s.d)
      [] s.kind = "insert" -> insertData_toSqlRaw(s.d)
      [] s.kind = "update" -> updateData_toSqlRaw(s.d)
      [] s.kind = "delete" -> deleteData_toSqlRaw(s.d)

ToSql(s) ==
    CASE s.kind = "select" -> selectData_ToSql(s.d)
      [] s.kind = "insert" -> insertData_ToSql(s.d)
      [] s.kind = "update" -> updateData_ToSql(s.d)
      [] s.kind = "delete" -> deleteData_ToSql(s.d)
      [] s.kind = "cte" -> commonTableExpressionsData_toSql(s.d)
      [] s.kind = "case" -> caseData_ToSql(s.d)
      [] s.kind = "part" -> part_ToSql(s)
      [] s.kind = "wherePart" -> wherePart_ToSql(s)
      [] s.kind = "expr" -> expr_ToSql(s)
      [] s.kind = "alias" -> aliasExpr_ToSql(s)
      [] s.kind = "sum" -> sumExpr_ToSql(s)
      [] s.kind = "count" -> countExpr_ToSql(s)
      [] s.kind = "min" -> minExpr_ToSql(s)
      [] s.kind = "max" -> maxExpr_ToSql(s)
      [] s.kind = "avg" -> avgExpr_ToSql(s)
      [] s.kind = "exists" -> existsExpr_ToSql(s)
      [] s.kind = "notExists" -> notExistsExpr_ToSql(s)
      [] s.kind = "in" -> inExpr_ToSql(s)
      [] s.kind = "notIn" -> notInExpr_ToSql(s)
      [] s.kind = "and" -> And_ToSql(s)
      [] s.kind = "or" -> Or_ToSql(s)
      [] s.kind = "lt" -> Lt_toSql(s.m, s.opposite, s.orEq)
      [] s.kind = "cteExpr" -> cteExpr_ToSql(s)
      [] s.kind = "not" -> notExpr_ToSql(s)
      [] s.kind = "range" -> rangeExpr_ToSql(s)
      [] s.kind = "eq" -> Eq_ToSql(s.m)
      [] s.kind = "like" -> Like_toSql(s.m, s.order, s.opr)
      [] s.kind = "eqNotEmpty" -> EqNotEmpty_ToSql(s.m)
      [] s.kind = "notEq" -> NotEq_ToSql(s.m)

\* fmt.Fprintf(buf, "'%v'", arg)
Shown(arg) == [k |-> "lit", s |-> "'%v'", n |-> 0, g |-> arg]

\* the loop of DebugSqlizer with "?" as placeholder: p is the cursor in sql,
\* i the number of args placed
RECURSIVE debugLoop(_, _, _, _, _)
debugLoop(sql, p, args, i, buf) ==
    IF p > Len(sql)
    THEN IF i < Len(args)
         THEN <<Lit("[DebugSqlizer error: "), Lit("not enough placeholders in "), Lit("]")>>
         ELSE buf
    ELSE IF sql[p].k /= "q" THEN debugLoop(sql, p + 1, args, i, Append(buf, sql[p]))
    ELSE IF p < Len(sql) /\ sql[p + 1].k = "q"
    THEN debugLoop(sql, p + 2, args, i, Append(buf, Q(0)))
    ELSE IF i + 1 > Len(args)
    THEN <<Lit("[DebugSqlizer error: "), Lit("too many placeholders in "), Lit("]")>>
    ELSE debugLoop(sql, p + 1, args, i + 1, Append(buf, Shown(args[i + 1])))

\* variant: the error of ToSql is not looked at
DebugSqlizer_anyway(r) == debugLoop(r.sql, 1, r.args, 0, <<>>)

\* DebugSqlizer of a fragment that is no placeholderDebugger, r being s.ToSql()
DebugSqlizer(r) ==
    IF r.err /= NoErr THEN <<Lit("[ToSql error: "), Lit(r.err), Lit("]")>>
    ELSE debugLoop(r.sql, 1, r.args, 0, <<>>)

----------------------------------------------------------------------------
(* The statement builders as a state machine.  b is one builder value; a   *)
(* setter replaces it by the derived value, ToSql renders it into out.     *)
(* frag holds the inner SELECT that the session nests into statements, or  *)
(* nil in a session that nests none.                                       *)

\* the placeholder formats the builders are exercised with
BuilderFormats == {"Question", "Dollar"}

str(t) == StrV(<<Lit(t)>>)

\* "<col> = ?" bound to v
Bound(col, v) == StrV(<<Lit(col \o " = "), Q(v)>>)

\* Select("1").From("s").Where("a = ?", 501)[.Where("a = ?", 502)...] under format f
InnerSelect(k, f) ==
    [kind |-> "select",
     d |-> [EmptySelectData(f) EXCEPT
              !.Columns = <<newPart(str("1"), <<>>)>>,
              !.From = newPart(str("s"), <<>>),
              !.WhereParts = [i \in 1..k |->
                                 newWherePart(Bound("a", 500 + i), <<IntV(500 + i)>>)]]]

InnerSelects == {InnerSelect(k, "Dollar") : k \in 1..2}

\* number of clause fragments and scalar clauses a builder holds
Size(x) ==
    CASE x.kind = "select" ->
             Len(x.d.Prefixes) + Len(x.d.Options) + Len(x.d.Columns)
             + (IF x.d.From.kind = "nil" THEN 0 ELSE 1) + Len(x.d.Joins)
             + Len(x.d.WhereParts) + Len(x.d.GroupBys) + Len(x.d.HavingParts)
             + Len(x.d.OrderByParts) + (IF x.d.Limit = "" THEN 0 ELSE 1)
             + (IF x.d.Offset = "" THEN 0 ELSE 1) + Len(x.d.Suffixes)
      [] x.kind = "update" ->
             Len(x.d.Prefixes) + Len(x.d.SetClauses)
             + (IF x.d.From.kind = "nil" THEN 0 ELSE 1) + Len(x.d.WhereParts)
             + Len(x.d.Suffixes)
      [] x.kind = "insert" ->
             Len(x.d.Prefixes) + Len(x.d.Columns) + Len(x.d.Values)
             + (IF x.d.Select.kind = "nil" THEN 0 ELSE 1) + Len(x.d.Suffixes)
      [] x.kind = "delete" ->
             Len(x.d.Prefixes) + Len(x.d.WhereParts) + Len(x.d.Suffixes)
      [] x.kind = "cte" ->
             Len(x.d.Ctes) + (IF x.d.Statement.kind = "nil" THEN 0 ELSE 1)
      [] OTHER -> 0

\* the value bound by the next outer placeholder of a clause: the clause's
\* position in the statement text, then the order of the call among the calls
Val(clause) == 10 * clause + Size(b) + 1

\* how many clause fragments the builder may still take: a SELECT without a
\* column takes one, a SELECT with a column and an UPDATE take MaxParts more
\* than their first column or SET clause
\* the inner SELECT of the session, if it has one
Inner == IF frag.kind = "select" THEN {frag} ELSE {}

Room ==
    Size(b) < (CASE b.kind = "select" ->
                        IF Len(b.d.Columns) = 0 THEN 1
                        ELSE IF Inner = {} THEN MaxClauses + 1 ELSE MaxParts + 1
                 [] b.kind = "update" -> MaxParts + 1
                 [] OTHER -> MaxParts)

\* Select(), Select("c"), Update(t), Insert(t), Delete(t), With(name) of a
\* statement builder with placeholder format f; t may be empty
InitBuilders ==
    {[kind |-> "select", d |-> EmptySelectData(f)] : f \in BuilderFormats}
    \cup {[kind |-> "select",
           d |-> [EmptySelectData(f) EXCEPT !.Columns = <<newPart(str("c"), <<>>)>>]] :
             f \in BuilderFormats}
    \cup {[kind |-> "update", d |-> [EmptyUpdateData(f) EXCEPT !.Table = t]] :
             f \in BuilderFormats, t \in {"", "t1"}}
    \cup {[kind |-> "insert", d |-> [EmptyInsertData(f) EXCEPT !.Into = t]] :
             f \in BuilderFormats, t \in {"", "t1"}}
    \cup {[kind |-> "delete", d |-> [EmptyDeleteData(f) EXCEPT !.From = t]] :
             f \in BuilderFormats, t \in {"", "t1"}}
    \cup {[kind |-> "cte", d |-> [EmptyCteData(f) EXCEPT !.CurrentCteName = "w1"]] :
             f \in BuilderFormats}

Init ==
    /\ b \in InitBuilders
    /\ out = NoOut
    /\ base = NoBuilder /\ baseOut = NoOut
    /\ text = <<>> /\ dialect = "Question" /\ formatted = NoOut
    /\ frag \in InnerSelects
    /\ fragOut = NoOut
    /\ hist = <<>>
    /\ debug = NoDebug

\* a setter: b becomes nb, the old rendering is forgotten
Derive(nb) ==
    /\ b' = nb
    /\ out' = NoOut
    /\ UNCHANGED <<base, baseOut, text, dialect, formatted, frag, fragOut, hist, debug>>

PlaceholderFormat ==
    \E f \in BuilderFormats :
        /\ f /= b.d.PlaceholderFormat
        /\ Derive([b EXCEPT !.d.PlaceholderFormat = f])

\* PrefixExpr(e) of every statement builder, and Prefix(sql, args...) = PrefixExpr(Expr(..))
PrefixExpr ==
    /\ b.kind \in {"select", "update", "insert", "delete"} /\ Room
    /\ \E e \in Inner \cup {Expr(<<Lit("WITH p AS "), Q(Val(1))>>, <<IntV(Val(1))>>)} :
           Derive([b EXCEPT !.d.Prefixes = Append(@, e)])

\* Suffix(sql, args...) = SuffixExpr(Expr(sql, args...))
Suffix ==
    /\ b.kind \in {"select", "update", "insert", "delete"} /\ Room
    /\ Derive([b EXCEPT !.d.Suffixes =
                  Append(@, Expr(<<Lit("RETURNING "), Q(Val(13))>>, <<IntV(Val(13))>>))])

\* the predicates given to Where: a string with a bound value, the inner SELECT,
\* a value of a wrong type, nil, and for a SELECT also a wrapper around the inner
\* SELECT or a conjunction holding it
WherePreds ==
    {<<Bound("b", Val(7)), <<IntV(Val(7))>>>>, <<OtherV, <<>>>>, <<NilV, <<>>>>}
    \cup {<<e, <<>>>> : e \in Inner}
    \cup (IF b.kind /= "select" THEN {}
          ELSE UNION {{<<Exists(e), <<>>>>, <<NotExists(e), <<>>>>,
                       <<In("x", e), <<>>>>, <<NotIn("x", e), <<>>>>,
                       <<And(<<e, Expr(<<Lit("e = "), Q(Val(7))>>, <<IntV(Val(7))>>)>>),
                         <<>>>>,
                       <<Or(<<Expr(<<Lit("e = "), Q(Val(7))>>, <<IntV(Val(7))>>), e>>),
                         <<>>>>} : e \in Inner})

\* SelectBuilder.Where returns b itself for a nil or "" predicate; the other
\* builders append it
Where ==
    /\ b.kind \in {"select", "update", "delete"} /\ Room
    /\ \E p \in WherePreds :
           IF b.kind = "select" /\ p[1].kind = "nil"
           THEN Derive(b)
           ELSE Derive([b EXCEPT !.d.WhereParts = Append(@, newWherePart(p[1], p[2]))])

Columns ==
    /\ b.kind = "select" /\ Room
    /\ Derive([b EXCEPT !.d.Columns = Append(@, newPart(str("c"), <<>>))])

Column ==
    /\ b.kind = "select" /\ Room
    /\ \E e \in {Sum(frag), Count(frag), Min(frag), Max(frag), Avg(frag)} :
           Derive([b EXCEPT !.d.Columns = Append(@, newPart(e, <<>>))])

Distinct ==
    /\ b.kind = "select" /\ Room
    /\ Derive([b EXCEPT !.d.Options = Append(@, "DISTINCT")])

From ==
    /\ b.kind \in {"select", "update"} /\ Room /\ b.d.From.kind = "nil"
    /\ Derive([b EXCEPT !.d.From = newPart(str("t"), <<>>)])

\* SelectBuilder.FromSelect resets the subquery to the Question format
SelectBuilder_FromSelect(sb, from, alias) ==
    [sb EXCEPT !.d.From = Alias([from EXCEPT !.d.PlaceholderFormat = "Question"], alias)]

SelectFromSelect ==
    /\ b.kind = "select" /\ Room
    /\ Derive(SelectBuilder_FromSelect(b, frag, "q"))

UpdateBuilder_FromSelect(ub, from, alias) == [ub EXCEPT !.d.From = Alias(from, alias)]

UpdateFromSelect ==
    /\ b.kind = "update" /\ Room
    /\ Derive(UpdateBuilder_FromSelect(b, frag, "q"))

JoinClause ==
    /\ b.kind = "select" /\ Room
    /\ \E p \in {<<e, <<>>>> : e \in Inner}
                 \cup {<<StrV(<<Lit("JOIN j ON k = "), Q(Val(6))>>), <<IntV(Val(6))>>>>} :
           Derive([b EXCEPT !.d.Joins = Append(@, newPart(p[1], p[2]))])

GroupBy ==
    /\ b.kind = "select" /\ Room
    /\ Derive([b EXCEPT !.d.GroupBys = Append(@, "g")])

Having ==
    /\ b.kind = "select" /\ Room
    /\ Derive([b EXCEPT !.d.HavingParts =
                  Append(@, newWherePart(Bound("h", Val(9)), <<IntV(Val(9))>>))])

OrderByClause ==
    /\ b.kind = "select" /\ Room
    /\ Derive([b EXCEPT !.d.OrderByParts =
                  Append(@, newPart(Bound("o", Val(10)), <<IntV(Val(10))>>))])

Limit ==
    /\ b.kind = "select" /\ Room /\ b.d.Limit = ""
    /\ Derive([b EXCEPT !.d.Limit = ToString(5)])

Offset ==
    /\ b.kind = "select" /\ Room /\ b.d.Offset = ""
    /\ Derive([b EXCEPT !.d.Offset = ToString(6)])

Set ==
    /\ b.kind = "update" /\ Room
    /\ \E v \in {IntV(Val(4)), frag, Expr(<<Lit("x + "), Q(Val(4))>>, <<IntV(Val(4))>>)} :
           Derive([b EXCEPT !.d.SetClauses = Append(@, setClause("col", v))])

InsertColumns ==
    /\ b.kind = "insert" /\ Room
    /\ Derive([b EXCEPT !.d.Columns = Append(@, "a")])

Values ==
    /\ b.kind = "insert" /\ Room
    /\ \E row \in {<<IntV(Val(4))>>, <<frag>>, <<IntV(Val(4)), frag>>, <<frag, IntV(Val(4))>>} :
           Derive([b EXCEPT !.d.Values = Append(@, row)])

InsertSelect ==
    /\ b.kind = "insert" /\ Room
    /\ Derive([b EXCEPT !.d.Select = frag])

\* the statements a CTE builder is finished with, each with bound values of its own
Terminals ==
    {[kind |-> "select",
      d |-> [EmptySelectData("Dollar") EXCEPT
               !.Columns = <<newPart(str("c"), <<>>)>>,
               !.WhereParts = <<newWherePart(Bound("s", 601), <<IntV(601)>>)>>]],
     [kind |-> "insert",
      d |-> [EmptyInsertData("Dollar") EXCEPT
               !.Into = "t2", !.Values = <<<<IntV(601), IntV(602)>>>>]],
     [kind |-> "update",
      d |-> [EmptyUpdateData("Dollar") EXCEPT
               !.Table = "t2", !.SetClauses = <<setClause("x", IntV(601))>>,
               !.WhereParts = <<newWherePart(Bound("y", 602), <<IntV(602)>>)>>]],
     [kind |-> "delete",
      d |-> [EmptyDeleteData("Dollar") EXCEPT
               !.From = "t2",
               !.WhereParts = <<newWherePart(Bound("z", 601), <<IntV(601)>>)>>]]}

Cte ==
    /\ b.kind = "cte" /\ b.d.CurrentCteName = "w1"
    /\ Derive([b EXCEPT !.d.CurrentCteName = "w2"])

Recursive ==
    /\ b.kind = "cte" /\ ~b.d.Recursive
    /\ Derive([b EXCEPT !.d.Recursive = TRUE])

\* variant: As keeps the placeholder format of the select
CommonTableExpressionsBuilder_As_keepFormat(cb, as) ==
    [cb EXCEPT !.d.Ctes = Append(@, cteExpr(as, cb.d.CurrentCteName))]

\* As(as): the select is reset to the Question format and named
CommonTableExpressionsBuilder_As(cb, as) ==
    [cb EXCEPT !.d.Ctes =
        Append(@, cteExpr([as EXCEPT !.d.PlaceholderFormat = "Question"],
                          cb.d.CurrentCteName))]

As ==
    /\ b.kind = "cte" /\ Len(b.d.Ctes) < MaxParts
    /\ \E f \in Formats :
           Derive(CommonTableExpressionsBuilder_As(
                      b, [frag EXCEPT !.d.PlaceholderFormat = f]))

\* variant: a terminal statement once set stays
CommonTableExpressionsBuilder_Statement_first(cb, statement) ==
    IF cb.d.Statement.kind = "nil" THEN [cb EXCEPT !.d.Statement = statement] ELSE cb

\* Select, Insert, Replace, Update, Delete of the CTE builder
CommonTableExpressionsBuilder_Statement(cb, statement) ==
    [cb EXCEPT !.d.Statement = statement]

CteStatement ==
    /\ b.kind = "cte"
    /\ \E t \in Terminals :
           /\ t /= b.d.Statement
           /\ Derive(CommonTableExpressionsBuilder_Statement(b, t))

\* variant: the where-parts toSqlRaw rendered are stored back into the builder
Builder_ToSql_stored(x) ==
    [r |-> ToSql(x),
     x |-> IF x.kind = "select" THEN [x EXCEPT !.d.WhereParts = selectWhereParts(x.d)]
           ELSE x]

\* ToSql of a builder: the rendering of a copy of its data, and the builder
\* as the call leaves it
Builder_ToSql(x) == [r |-> ToSql(x), x |-> x]

BuilderToSql ==
    /\ ~out.called
    /\ \E c \in {Builder_ToSql(b)} : out' = Called(c.r) /\ b' = c.x
    /\ UNCHANGED <<base, baseOut, text, dialect, formatted, frag, fragOut, hist, debug>>

Next ==
    \/ PlaceholderFormat \/ PrefixExpr \/ Suffix \/ Where \/ Column
    \/ SelectFromSelect \/ UpdateFromSelect \/ JoinClause \/ Set
    \/ InsertColumns \/ Values \/ InsertSelect \/ Cte \/ Recursive \/ As
    \/ CteStatement \/ BuilderToSql

Spec == Init /\ [][Next]_vars

----------------------------------------------------------------------------
(* Properties of the nesting of statements (specification Spec)           *)

Toks(sql) == SelectSeq(sql, LAMBDA e : e.k = "tok")

\* r is numbered once: no '?' is left, the tokens are $1..$n from left to
\* right, and args[i] is the value the placeholder of token i was written for
NumberedOnce(r) ==
    /\ \A i \in 1..Len(r.sql) : r.sql[i].k /= "q"
    /\ Len(Toks(r.sql)) = Len(r.args)
    /\ \A i \in 1..Len(r.args) :
           /\ Toks(r.sql)[i].s = "$" /\ Toks(r.sql)[i].n = i
           /\ r.args[i] = IntV(Toks(r.sql)[i].g)

\* b was rendered without error under the Dollar format
RenderedDollar(kinds) ==
    /\ out.called /\ out.err = NoErr
    /\ b.kind \in kinds /\ b.d.PlaceholderFormat = "Dollar"

PredicateWrappers == {"exists", "notExists", "in", "notIn"}
AggregateWrappers == {"sum", "count", "min", "max", "avg"}
IsBound(p) == p.pred.kind = "string" /\ p.args /= <<>>

\* a wrapper around the inner SELECT in the columns or the WHERE clause of the
\* SELECT x, with an outer placeholder after it
WrapperThenOuter(x) ==
    \/ /\ \E i \in DOMAIN x.d.Columns : x.d.Columns[i].pred.kind \in AggregateWrappers
       /\ \/ Len(x.d.Suffixes) > 0
          \/ \E j \in DOMAIN x.d.WhereParts : IsBound(x.d.WhereParts[j])
    \/ \E i \in DOMAIN x.d.WhereParts :
          /\ x.d.WhereParts[i].pred.kind \in PredicateWrappers
          /\ \/ Len(x.d.Suffixes) > 0
             \/ \E j \in (i + 1)..Len(x.d.WhereParts) : IsBound(x.d.WhereParts[j])

HasWrapper(x) ==
    \/ \E i \in DOMAIN x.d.Columns : x.d.Columns[i].pred.kind \in AggregateWrappers
    \/ \E i \in DOMAIN x.d.WhereParts : x.d.WhereParts[i].pred.kind \in PredicateWrappers

\* C1: a Dollar SELECT whose columns or WHERE clause hold Exists, NotExists,
\* Sum, Count, Min, Max, Avg, In or NotIn around the Dollar inner SELECT, followed
\* by a further outer placeholder, renders with the tokens $1..$n, none repeated,
\* and with the inner values before the later outer values in args.
C1_WrapperNumberedOnce ==
    (RenderedDollar({"select"}) /\ WrapperThenOuter(b)) => NumberedOnce(out)

\* the inner SELECT as prefix expression, FROM subquery, join, WHERE predicate
\* or member of And/Or of the SELECT x
NestsRaw(x) ==
    \/ \E i \in DOMAIN x.d.Prefixes : x.d.Prefixes[i].kind = "select"
    \/ x.d.From.kind = "alias"
    \/ \E i \in DOMAIN x.d.Joins : x.d.Joins[i].pred.kind = "select"
    \/ \E i \in DOMAIN x.d.WhereParts :
          x.d.WhereParts[i].pred.kind \in {"select", "and", "or"}

NoTok(sql) == \A i \in 1..Len(sql) : sql[i].k /= "tok"

\* C2: a Dollar SELECT that holds the Dollar inner SELECT as prefix expression,
\* FROM subquery, join, WHERE predicate or member of And/Or (and in no wrapper)
\* composes a raw text without numbered tokens, and its ToSql numbers the whole
\* text $1..$n once, with args in the order of their placeholders.
C2_RawNestingNumberedOnce ==
    (RenderedDollar({"select"}) /\ NestsRaw(b) /\ ~HasWrapper(b))
        => (NoTok(toSqlRaw(b).sql) /\ NumberedOnce(out))

C2_Witness ==
    /\ RenderedDollar({"select"}) /\ ~HasWrapper(b)
    /\ b.d.From.kind = "alias"
    /\ \E j \in DOMAIN b.d.WhereParts : IsBound(b.d.WhereParts[j])
    /\ Len(out.args) >= 3

\* the inner SELECT as SET value of the UPDATE x, or as a VALUES cell or the
\* SELECT source of the INSERT x
NestsValue(x) ==
    \/ /\ x.kind = "update"
       /\ \E i \in DOMAIN x.d.SetClauses : x.d.SetClauses[i].value.kind = "select"
    \/ /\ x.kind = "insert"
       /\ \/ x.d.Select.kind = "select"
          \/ \E r \in DOMAIN x.d.Values : \E v \in DOMAIN x.d.Values[r] :
                x.d.Values[r][v].kind = "select"

\* C3: a Dollar UPDATE or INSERT that holds the Dollar inner SELECT as SET value
\* (rendered "col = (subquery)"), as a VALUES cell or as the SELECT source (and
\* not as FROM subquery) is numbered $1..$n once over the whole text, later WHERE
\* and suffix placeholders included, with args in the same order.
C3_ValueNestingNumberedOnce ==
    (RenderedDollar({"update", "insert"}) /\ NestsValue(b)
     /\ (b.kind = "update" => b.d.From.kind /= "alias"))
        => /\ NumberedOnce(out)
           /\ b.kind = "update" => \E i \in 1..Len(out.sql) : out.sql[i] = Lit("col = (")

C3_Witness ==
    /\ RenderedDollar({"update"}) /\ NestsValue(b) /\ b.d.From.kind /= "alias"
    /\ \E j \in DOMAIN b.d.WhereParts : IsBound(b.d.WhereParts[j])
    /\ Len(out.args) >= 3

\* C4: a Dollar UPDATE with a scalar SET value, the Dollar inner SELECT as
\* FromSelect subquery and a WHERE placeholder is numbered $1..$n once, left to
\* right (SET, FROM subquery, WHERE), with args in the same order.
C4_UpdateFromSelectNumberedOnce ==
    (/\ RenderedDollar({"update"})
     /\ b.d.From.kind = "alias"
     /\ \A i \in DOMAIN b.d.SetClauses : b.d.SetClauses[i].value.kind = "int"
     /\ \E j \in DOMAIN b.d.WhereParts : IsBound(b.d.WhereParts[j]))
        => NumberedOnce(out)

RECURSIVE Flatten(_)
Flatten(seqs) == IF seqs = <<>> THEN <<>> ELSE Head(seqs) \o Flatten(Tail(seqs))

\* the bound values of a statement that nests nothing, in the order of its text
OwnArgs(x) ==
    CASE x.kind \in {"select", "delete"} ->
             Flatten([i \in DOMAIN x.d.WhereParts |-> x.d.WhereParts[i].args])
      [] x.kind = "insert" -> Flatten(x.d.Values)
      [] x.kind = "update" ->
             [i \in DOMAIN x.d.SetClauses |-> x.d.SetClauses[i].value]
             \o Flatten([i \in DOMAIN x.d.WhereParts |-> x.d.WhereParts[i].args])

\* C5: a Dollar CTE builder with at least one As entry (the select of any
\* placeholder format) and a terminal SELECT, INSERT, UPDATE or DELETE renders
\* without error, numbered $1..$n once across the CTE bodies and the terminal
\* statement; args are the bodies' args in order, then the terminal statement's.
C5_CteNumberedOnce ==
    (/\ out.called /\ b.kind = "cte" /\ b.d.PlaceholderFormat = "Dollar"
     /\ Len(b.d.Ctes) >= 1 /\ b.d.Statement.kind /= "nil")
        => /\ out.err = NoErr
           /\ NumberedOnce(out)
           /\ out.args = Flatten([i \in DOMAIN b.d.Ctes |-> OwnArgs(b.d.Ctes[i].expr)])
                             \o OwnArgs(b.d.Statement)

C5_Witness ==
    /\ RenderedDollar({"cte"})
    /\ Len(b.d.Ctes) >= 2 /\ b.d.Statement.kind = "update"
    /\ Len(out.args) >= 4

\* a required clause of the statement x is missing
MissingRequired(x) ==
    CASE x.kind = "select" -> Len(x.d.Columns) = 0
      [] x.kind = "insert" ->
             x.d.Into = "" \/ (Len(x.d.Values) = 0 /\ x.d.Select.kind = "nil")
      [] x.kind = "update" -> x.d.Table = "" \/ Len(x.d.SetClauses) = 0
      [] x.kind = "delete" -> x.d.From = ""
      [] x.kind = "cte" -> Len(x.d.Ctes) = 0 \/ x.d.Statement.kind = "nil"

\* a where-part of x holds a value of a wrong type, which fails to render
HasFailingPart(x) ==
    /\ x.kind \in {"select", "update", "delete"}
    /\ \E i \in DOMAIN x.d.WhereParts : x.d.WhereParts[i].pred.kind = "other"

\* C9: ToSql of a statement builder returns an error with empty text and nil
\* args, never partial text: for a statement without a required clause (SELECT
\* column; INSERT table, values or select; UPDATE table, SET; DELETE table; CTE
\* As entry, terminal statement), and for a statement with a failing fragment,
\* whose error is returned unchanged.
C9_ErrorWithoutText ==
    out.called =>
        /\ out.err /= NoErr => (out.sql = <<>> /\ out.args = <<>>)
        /\ MissingRequired(b) => out.err /= NoErr
        /\ (~MissingRequired(b) /\ HasFailingPart(b))
               => out.err = "expected string-keyed map or string"

C9_Witness ==
    /\ out.called /\ out.err /= NoErr
    /\ ~MissingRequired(b) /\ HasFailingPart(b)
    /\ b.d.WhereParts[1].pred.kind /= "other"

----------------------------------------------------------------------------
(* The SELECT builder alone, with every clause, nesting nothing: the       *)
(* clauses are added in any order.                                         *)

InitOrder ==
    /\ b \in {[kind |-> "select",
                d |-> [EmptySelectData(f) EXCEPT !.Columns = <<newPart(str("c"), <<>>)>>]] :
                  f \in BuilderFormats}
    /\ out = NoOut
    /\ base = NoBuilder /\ baseOut = NoOut
    /\ text = <<>> /\ dialect = "Question" /\ formatted = NoOut
    /\ frag = NilV /\ fragOut = NoOut
    /\ hist = <<>>
    /\ debug = NoDebug

NextOrder ==
    \/ PrefixExpr \/ Distinct \/ Columns \/ From \/ JoinClause \/ Where \/ GroupBy
    \/ Having \/ OrderByClause \/ Limit \/ Offset \/ Suffix \/ BuilderToSql

SpecOrder == InitOrder /\ [][NextOrder]_vars

\* the clause a piece of the text of the SELECT builder belongs to, by its
\* position in the fixed order; separators belong to none
ClauseOfText(t) ==
    CASE t = "WITH p AS " -> 1
      [] t = "SELECT " -> 2
      [] t = "DISTINCT" -> 3
      [] t = "c" -> 4
      [] t \in {" FROM ", "t"} -> 5
      [] t = "JOIN j ON k = " -> 6
      [] t \in {" WHERE ", "b = "} -> 7
      [] t \in {" GROUP BY ", "g"} -> 8
      [] t \in {" HAVING ", "h = "} -> 9
      [] t \in {" ORDER BY ", "o = "} -> 10
      [] t \in {" LIMIT ", "5"} -> 11
      [] t \in {" OFFSET ", "6"} -> 12
      [] t = "RETURNING " -> 13
      [] OTHER -> 0

\* a placeholder belongs to the clause its bound value was given to
ClauseOf(e) == IF e.k = "lit" THEN ClauseOfText(e.s) ELSE e.g \div 10

\* the placeholders of a text, markers or tokens, from left to right
Marks(sql) == SelectSeq(sql, LAMBDA e : e.k /= "lit")

\* how often the piece t is in the text
Occurrences(sql, t) == Cardinality({i \in DOMAIN sql : sql[i] = Lit(t)})

\* C7: the text of SelectBuilder.ToSql holds the clauses in the order prefixes,
\* SELECT with options, columns, FROM, joins, WHERE, GROUP BY, HAVING, ORDER BY,
\* LIMIT, OFFSET, suffixes, whatever the order of the calls; every fragment given
\* to the builder is in the text; args are the bound values in the order of the
\* text, so clause by clause, and in insertion order within a clause.
C7_ClauseOrder ==
    (out.called /\ out.err = NoErr) =>
        /\ \A i, j \in DOMAIN out.sql :
               (i < j /\ ClauseOf(out.sql[i]) > 0 /\ ClauseOf(out.sql[j]) > 0)
                   => ClauseOf(out.sql[i]) <= ClauseOf(out.sql[j])
        /\ Occurrences(out.sql, "WITH p AS ") = Len(b.d.Prefixes)
        /\ Occurrences(out.sql, "SELECT ") = 1
        /\ Occurrences(out.sql, "DISTINCT") = Len(b.d.Options)
        /\ Occurrences(out.sql, "c") = Len(b.d.Columns)
        /\ Occurrences(out.sql, " FROM ") = (IF b.d.From.kind = "nil" THEN 0 ELSE 1)
        /\ Occurrences(out.sql, "JOIN j ON k = ") = Len(b.d.Joins)
        /\ Occurrences(out.sql, " WHERE ") = (IF b.d.WhereParts = <<>> THEN 0 ELSE 1)
        /\ Occurrences(out.sql, "b = ") = Len(b.d.WhereParts)
        /\ Occurrences(out.sql, " GROUP BY ") = (IF b.d.GroupBys = <<>> THEN 0 ELSE 1)
        /\ Occurrences(out.sql, "g") = Len(b.d.GroupBys)
        /\ Occurrences(out.sql, " HAVING ") = (IF b.d.HavingParts = <<>> THEN 0 ELSE 1)
        /\ Occurrences(out.sql, "h = ") = Len(b.d.HavingParts)
        /\ Occurrences(out.sql, " ORDER BY ") = (IF b.d.OrderByParts = <<>> THEN 0 ELSE 1)
        /\ Occurrences(out.sql, "o = ") = Len(b.d.OrderByParts)
        /\ Occurrences(out.sql, " LIMIT ") = (IF b.d.Limit = "" THEN 0 ELSE 1)
        /\ Occurrences(out.sql, " OFFSET ") = (IF b.d.Offset = "" THEN 0 ELSE 1)
        /\ Occurrences(out.sql, "RETURNING ") = Len(b.d.Suffixes)
        /\ Len(out.args) = Len(Marks(out.sql))
        /\ \A i \in DOMAIN out.args : out.args[i] = IntV(Marks(out.sql)[i].g)
        /\ \A i, j \in DOMAIN out.args :
               (i < j /\ out.args[i].v \div 10 = out.args[j].v \div 10)
                   => out.args[i].v < out.args[j].v

\* Where was called before JoinClause, and the join's value is before the
\* WHERE value in args
C7_Witness ==
    /\ out.called /\ out.err = NoErr
    /\ \E i, j \in DOMAIN out.args :
           /\ i < j
           /\ out.args[i].v \div 10 = 6 /\ out.args[j].v \div 10 = 7
           /\ out.args[j].v % 10 < out.args[i].v % 10

----------------------------------------------------------------------------
(* Builder values: a SELECT builder is set aside as base, children are     *)
(* derived from it, and base and children are rendered in any order.       *)

Paginate ==
    /\ b.kind = "select" /\ b.d.Paginator = NoPaginator
    /\ \E p \in {PaginatorByPage(uint64(5), uint64(2)), PaginatorByID(uint64(5), 7)} :
           Derive([b EXCEPT !.d.Paginator = p])

SetIDColumn ==
    /\ b.kind = "select" /\ b.d.IDColumn = ""
    /\ Derive([b EXCEPT !.d.IDColumn = "id"])

\* base := b, rendered once
Fork ==
    /\ base = NoBuilder
    /\ \E c \in {Builder_ToSql(b)} : baseOut' = Called(c.r) /\ base' = c.x
    /\ UNCHANGED <<b, out, text, dialect, formatted, frag, fragOut, hist, debug>>

\* a sibling: the derivation starts again from base
Sibling ==
    /\ base /= NoBuilder /\ b /= base
    /\ Derive(base)

\* base.ToSql() again, after children were derived and rendered
BaseToSql ==
    /\ base /= NoBuilder
    /\ \E c \in {Builder_ToSql(base)} :
           out /= Called(c.r) /\ out' = Called(c.r) /\ base' = c.x
    /\ UNCHANGED <<b, baseOut, text, dialect, formatted, frag, fragOut, hist, debug>>

NextFork ==
    \/ PlaceholderFormat \/ Where \/ Limit \/ Paginate \/ SetIDColumn
    \/ Fork \/ Sibling \/ BaseToSql \/ BuilderToSql

SpecFork == InitOrder /\ [][NextFork]_vars

----------------------------------------------------------------------------
(* Fragments on their own: a leaf fragment is wrapped into expressions and *)
(* its own ToSql is called.                                                *)

\* "a = ?" bound to 1; a > nil and a part of a wrong type, both failing; a > 2
Leaves ==
    {Expr(<<Lit("a = "), Q(1)>>, <<IntV(1)>>), Gt(("a" :> NilV)),
     newPart(OtherV, <<>>), Gt(("a" :> IntV(2)))}

RECURSIVE Depth(_)
Depth(e) ==
    CASE e.kind \in {"alias", "sum", "count", "min", "max", "avg", "exists",
                     "notExists", "in", "notIn"} -> 1 + Depth(e.expr)
      [] e.kind = "expr" -> IF e.args /= <<>> /\ IsSqlizer(e.args[1])
                            THEN 1 + Depth(e.args[1]) ELSE 0
      [] e.kind = "case" ->
             1 + (IF IsSqlizer(e.d.WhenParts[1].when.pred)
                  THEN Depth(e.d.WhenParts[1].when.pred)
                  ELSE Depth(e.d.WhenParts[1].then.pred))
      [] OTHER -> 0

InitFrag ==
    /\ b = NoBuilder /\ out = NoOut /\ base = NoBuilder /\ baseOut = NoOut
    /\ text = <<>> /\ dialect = "Question" /\ formatted = NoOut
    /\ frag \in Leaves
    /\ fragOut = NoOut
    /\ hist = <<>>
    /\ debug = NoDebug

Wrap(e) ==
    /\ Depth(frag) < MaxDepth
    /\ frag' = e
    /\ fragOut' = NoOut
    /\ UNCHANGED <<b, out, base, baseOut, text, dialect, formatted, hist, debug>>

\* Expr("f(?) + ?", frag, 9)
WrapExpr == Wrap(Expr(<<Lit("f("), Q(0), Lit(") + "), Q(9)>>, <<frag, IntV(9)>>))

WrapAlias == Wrap(Alias(frag, "x"))

WrapAggregate ==
    \E e \in {Sum(frag), Count(frag), Min(frag), Max(frag), Avg(frag),
               Exists(frag), NotExists(frag)} : Wrap(e)

\* Case().When(frag, 1) and Case().When("c", frag)
WrapCase ==
    \E e \in {CaseBuilder_When(EmptyCase, frag, IntV(1)),
               CaseBuilder_When(EmptyCase, str("c"), frag)} : Wrap(e)

FragToSql ==
    /\ ~fragOut.called
    /\ fragOut' = Called(ToSql(frag))
    /\ UNCHANGED <<b, out, base, baseOut, text, dialect, formatted, frag, hist, debug>>

NextFrag == WrapExpr \/ WrapAlias \/ WrapAggregate \/ WrapCase \/ FragToSql

SpecFrag == InitFrag /\ [][NextFrag]_vars

\* C10: a fragment's own ToSql returns the empty text whenever it returns an
\* error: Expr with a failing Sqlizer argument, Case with a failing WHEN or THEN
\* fragment, Alias and the aggregate wrappers around a failing fragment.
C10_FragmentErrorWithoutText ==
    (fragOut.called /\ fragOut.err /= NoErr) => fragOut.sql = <<>>

----------------------------------------------------------------------------
(* The placeholder formatter as a state machine: a text is typed in one    *)
(* character at a time and then formatted under the chosen dialect.        *)

Chars == {Q(0), Lit("x")}

InitFormat ==
    /\ b = NoBuilder /\ out = NoOut /\ base = NoBuilder /\ baseOut = NoOut
    /\ frag = NilV /\ fragOut = NoOut
    /\ hist = <<>>
    /\ debug = NoDebug
    /\ text = <<>>
    /\ dialect \in Formats
    /\ formatted = NoOut

TypeChar ==
    /\ Len(text) < MaxLen
    /\ \E c \in Chars : text' = Append(text, c)
    /\ formatted' = NoOut
    /\ UNCHANGED <<b, out, base, baseOut, dialect, frag, fragOut, hist, debug>>

Format ==
    /\ formatted' = Called(R(ReplacePlaceholders(dialect, text), <<>>, NoErr))
    /\ UNCHANGED <<b, out, base, baseOut, text, dialect, frag, fragOut, hist, debug>>

NextFormat == TypeChar \/ Format

SpecFormat == InitFormat /\ [][NextFormat]_vars

RECURSIVE MarksBefore(_, _)
\* the '?' characters directly before position i of the text t
MarksBefore(t, i) == IF i > 1 /\ t[i - 1].k = "q" THEN 1 + MarksBefore(t, i - 1) ELSE 0

\* position i is the second '?' of an escaped pair: read from the left, a run
\* of '?' is pairs, and a single marker at its end when its length is odd
IsEscape(t, i) == t[i].k = "q" /\ MarksBefore(t, i) % 2 = 1
IsFirstOfPair(t, i) ==
    t[i].k = "q" /\ MarksBefore(t, i) % 2 = 0 /\ i < Len(t) /\ t[i + 1].k = "q"
IsMarker(t, i) == t[i].k = "q" /\ ~IsEscape(t, i) /\ ~IsFirstOfPair(t, i)

Markers(t) == {i \in DOMAIN t : IsMarker(t, i)}
Escapes(t) == {i \in DOMAIN t : IsEscape(t, i)}

\* what position i of t becomes under dialect f: a marker the token of its
\* index, a pair one '?' (written for its second character), any other character
\* itself
FormattedAt(t, f, i) ==
    IF IsMarker(t, i) THEN <<FormatToken(f, Cardinality({j \in Markers(t) : j <= i}), 0)>>
    ELSE IF IsFirstOfPair(t, i) THEN <<>>
    ELSE <<t[i]>>

\* C6: under each of Question, Dollar, Colon and AtP, formatting a text with m
\* markers and e escaped pairs never fails and gives the text with the m markers
\* replaced by the dialect's tokens of index 1..m from left to right, each pair
\* replaced by one '?', and every other character unchanged.
C6_FormatTotalAndNumbered ==
    formatted.called =>
        /\ formatted.err = NoErr
        /\ formatted.sql = Flatten([i \in DOMAIN text |-> FormattedAt(text, dialect, i)])
        /\ Len(formatted.sql) = Len(text) - Cardinality(Escapes(text))
        /\ dialect /= "Question" =>
               /\ Len(Toks(formatted.sql)) = Cardinality(Markers(text))
               /\ \A i \in DOMAIN Toks(formatted.sql) :
                      /\ Toks(formatted.sql)[i].n = i
                      /\ Toks(formatted.sql)[i].s = FormatPrefix(dialect)
               /\ Cardinality({i \in DOMAIN formatted.sql : formatted.sql[i].k = "q"})
                      = Cardinality(Escapes(text))
        /\ dialect = "Question" =>
               Cardinality({i \in DOMAIN formatted.sql : formatted.sql[i].k = "q"})
                   = Cardinality(Markers(text)) + Cardinality(Escapes(text))
        /\ SelectSeq(formatted.sql, LAMBDA c : c.k = "lit")
               = SelectSeq(text, LAMBDA c : c.k = "lit")

\* "??x?" formatted under Dollar: an escaped pair, then a marker
C6_Witness ==
    /\ formatted.called /\ dialect = "Dollar"
    /\ Escapes(text) /= {} /\ Markers(text) /= {}
    /\ \E i \in Escapes(text) : \E j \in Markers(text) : i < j

----------------------------------------------------------------------------
(* Conjunctions and negation: And{} or Or{} takes members one by one, the  *)
(* result is negated any number of times, and its own ToSql is called.     *)

\* members given to a conjunction
MaxMembers == 3
\* applications of Not to one fragment
MaxNots == 4

Call(op, arg) == [op |-> op, arg |-> arg]

\* "m = ?" bound to 3; In("x", [1, 2]); And{}; In("x", []) and Expr("", 7),
\* which render to the empty text; a > nil, which fails
Members ==
    {Expr(<<Lit("m = "), Q(3)>>, <<IntV(3)>>),
     In("x", ListV(<<IntV(1), IntV(2)>>)),
     And(<<>>),
     In("x", ListV(<<>>)),
     Expr(<<>>, <<IntV(7)>>),
     Gt(("a" :> NilV))}

NotCalls == SelectSeq(hist, LAMBDA c : c.op = "Not")

InitLogic ==
    /\ b = NoBuilder /\ out = NoOut /\ base = NoBuilder /\ baseOut = NoOut
    /\ text = <<>> /\ dialect = "Question" /\ formatted = NoOut
    /\ frag \in {And(<<>>), Or(<<>>)}
    /\ fragOut = NoOut
    /\ hist = <<>>
    /\ debug = NoDebug

\* append(frag, m)
AddMember ==
    /\ NotCalls = <<>> /\ Len(frag.parts) < MaxMembers
    /\ \E m \in Members :
           /\ frag' = [frag EXCEPT !.parts = Append(@, m)]
           /\ hist' = Append(hist, Call("member", m))
    /\ fragOut' = NoOut
    /\ UNCHANGED <<b, out, base, baseOut, text, dialect, formatted, debug>>

\* frag = Not(frag)
ApplyNot ==
    /\ Len(NotCalls) < MaxNots
    /\ frag' = Not(frag)
    /\ hist' = Append(hist, Call("Not", frag))
    /\ fragOut' = NoOut
    /\ UNCHANGED <<b, out, base, baseOut, text, dialect, formatted, debug>>

NextLogic == AddMember \/ ApplyNot \/ FragToSql

SpecLogic == InitLogic /\ [][NextLogic]_vars

\* the text of x in "NOT (" and ")", with the args of x
Negated(r) == R(<<Lit("NOT (")>> \o r.sql \o <<Lit(")")>>, r.args, NoErr)

\* C11: after n >= 1 applications of Not to a fragment x that is no negation,
\* the fragment renders exactly as x when n is even and as "NOT (<x>)" with the
\* args of x when n is odd; Not(Not(x)) is x itself, and no negation holds a
\* negation.
C11_NotNeverStacked ==
    /\ frag.kind = "not" => frag.expr.kind /= "not"
    /\ Len(NotCalls) >= 2 => frag = NotCalls[Len(NotCalls) - 1].arg
    /\ (fragOut.called /\ NotCalls /= <<>> /\ ToSql(NotCalls[1].arg).err = NoErr) =>
           IF Len(NotCalls) % 2 = 0
           THEN fragOut = Called(ToSql(NotCalls[1].arg))
           ELSE fragOut = Called(Negated(ToSql(NotCalls[1].arg)))

\* Not(Not(Not(x))) of a conjunction x with bound values was rendered
C11_Witness ==
    /\ fragOut.called /\ fragOut.err = NoErr
    /\ Len(NotCalls) = 3
    /\ Len(fragOut.args) >= 2

\* the members of the conjunction that render to a non-empty text
NonEmptyMembers == SelectSeq(frag.parts, LAMBDA m : ToSql(m).sql /= <<>>)
Separator == IF frag.kind = "and" THEN " AND " ELSE " OR "
Sentinel == IF frag.kind = "and" THEN "(1=1)" ELSE "(1=0)"

\* C12: And/Or with zero members renders its sentinel with no args; with
\* members it renders, in parentheses, the texts of the members whose text is
\* not empty, in member order, joined by the separator, with the args of
\* exactly those members in that order; and the empty text with no args when
\* every member renders to the empty text.
C12_ConjunctionSkipsEmpty ==
    (/\ fragOut.called /\ frag.kind \in {"and", "or"}
     /\ \A i \in 1..Len(frag.parts) : ToSql(frag.parts[i]).err = NoErr) =>
        fragOut =
            Called(IF frag.parts = <<>> THEN R(<<Lit(Sentinel)>>, <<>>, NoErr)
                   ELSE IF NonEmptyMembers = <<>> THEN R(<<>>, <<>>, NoErr)
                   ELSE R(<<Lit("(")>>
                          \o Join([i \in 1..Len(NonEmptyMembers) |->
                                       ToSql(NonEmptyMembers[i]).sql], Separator)
                          \o <<Lit(")")>>,
                          Flatten([i \in 1..Len(NonEmptyMembers) |->
                                       ToSql(NonEmptyMembers[i]).args]),
                          NoErr))

\* a conjunction of three members, the middle one rendering to the empty text
\* while holding an arg, was rendered
C12_Witness ==
    /\ fragOut.called /\ fragOut.err = NoErr /\ frag.kind = "or"
    /\ Len(frag.parts) = 3 /\ Len(NonEmptyMembers) = 2
    /\ frag.parts[2] = Expr(<<>>, <<IntV(7)>>)

\* a conjunction whose members all render to the empty text was rendered
C12_WitnessAllEmpty ==
    /\ fragOut.called /\ frag.kind = "and"
    /\ Len(frag.parts) = 2 /\ NonEmptyMembers = <<>>

----------------------------------------------------------------------------
(* Expression fragments built from values: a map literal (Eq, NotEq, ...)  *)
(* takes keys one by one, and the fragment's own ToSql is called.          *)

\* keys of one map
MaxKeys == 2

MapKeys == {KeyOrder[i] : i \in 1..Len(KeyOrder)}

\* nil, a nil *int, a pointer to 5, 4, 0, "", "x", false, a []byte, an empty
\* list, [1, 2], [0, 3], [0, ""], and the sub-selects
\* Select("1").From("s").Where("a = ?", 501) under Dollar and Select() without
\* columns, which fails
MapValues ==
    {NilV, PtrV(NilV), PtrV(IntV(5)), IntV(4), IntV(0), StrV(<<>>),
     StrV(<<Lit("x")>>), BoolV(FALSE), BytesV, ListV(<<>>),
     ListV(<<IntV(1), IntV(2)>>), ListV(<<IntV(0), IntV(3)>>),
     ListV(<<IntV(0), StrV(<<>>)>>), InnerSelect(1, "Dollar"),
     [kind |-> "select", d |-> EmptySelectData("Dollar")]}

\* values of the comparison maps: nil, a nil *int, 4, "x", a []byte, [1, 2]
CompareValues ==
    {NilV, PtrV(NilV), IntV(4), StrV(<<Lit("x")>>), BytesV, ListV(<<IntV(1), IntV(2)>>)}

MapKinds == {"eq", "notEq", "eqNotEmpty", "lt", "like"}
LikeOprs == {"LIKE", "NOT LIKE", "ILIKE", "NOT ILIKE"}

\* the sequences that hold every element of S once
Orders(S) ==
    {o \in [1..Cardinality(S) -> S] : \A i, j \in DOMAIN o : i /= j => o[i] /= o[j]}

\* elements of the longest list given to In and NotIn
MaxElems == 3

\* the list [1, ..., n]
ListOf(n) == ListV([i \in 1..n |-> IntV(i)])

\* lists of 0 to MaxElems elements, 4, "x", nil and a []byte
InValues ==
    {ListOf(n) : n \in 0..MaxElems} \cup {IntV(4), StrV(<<Lit("x")>>), NilV, BytesV}

InitExpr ==
    /\ b = NoBuilder /\ out = NoOut /\ base = NoBuilder /\ baseOut = NoOut
    /\ text = <<>> /\ dialect = "Question" /\ formatted = NoOut
    /\ frag = NilV
    /\ fragOut = NoOut
    /\ hist = <<>>
    /\ debug = NoDebug

\* Eq{}, NotEq{}, EqNotEmpty{}, Lt{}, LtOrEq{}, Gt{}, GtOrEq{}, Like{}, NotLike{},
\* ILike{} or NotILike{}
MakeMap ==
    /\ frag.kind = "nil"
    /\ frag' \in {Eq(<<>>), NotEq(<<>>), EqNotEmpty(<<>>)}
                 \cup {LtMap(<<>>, opposite, orEq) : opposite, orEq \in BOOLEAN}
                 \cup {Like(<<>>, opr) : opr \in LikeOprs}
    /\ UNCHANGED <<b, out, base, baseOut, text, dialect, formatted, fragOut, hist, debug>>

\* In("a", v) or NotIn("a", v)
MakeIn ==
    /\ frag.kind = "nil"
    /\ \E v \in InValues : frag' \in {In("a", v), NotIn("a", v)}
    /\ UNCHANGED <<b, out, base, baseOut, text, dialect, formatted, fragOut, hist, debug>>

\* nil, 0, 4, 9, "", "x" and the list [1, 2]
RangeValues ==
    {NilV, IntV(0), IntV(4), IntV(9), StrV(<<>>), StrV(<<Lit("x")>>), ListOf(2)}

\* Range("a", start, end)
MakeRange ==
    /\ frag.kind = "nil"
    /\ \E start, end \in RangeValues : frag' = Range("a", start, end)
    /\ UNCHANGED <<b, out, base, baseOut, text, dialect, formatted, fragOut, hist, debug>>

\* frag[k] = v
SetKey ==
    /\ frag.kind \in MapKinds
    /\ Cardinality(DOMAIN frag.m) < MaxKeys
    /\ \E k \in MapKeys \ DOMAIN frag.m,
          v \in IF frag.kind \in {"lt", "like"} THEN CompareValues ELSE MapValues :
           frag' = [frag EXCEPT !.m = (k :> v) @@ @]
    /\ fragOut' = NoOut /\ debug' = NoDebug
    /\ UNCHANGED <<b, out, base, baseOut, text, dialect, formatted, hist>>

\* the fragment as one call of ToSql sees it: every range over a Like map
\* iterates in an order of the runtime's choice
Iterations(s) ==
    IF s.kind = "like" THEN {[s EXCEPT !.order = o] : o \in Orders(DOMAIN s.m)}
    ELSE {s}

\* frag.ToSql()
ExprToSql ==
    /\ frag.kind /= "nil" /\ ~fragOut.called /\ ~debug.called
    /\ \E s \in Iterations(frag) : fragOut' = Called(ToSql(s))
    /\ UNCHANGED <<b, out, base, baseOut, text, dialect, formatted, frag, hist, debug>>

\* DebugSqlizer(frag)
DebugFrag ==
    /\ frag.kind /= "nil" /\ ~fragOut.called /\ ~debug.called
    /\ \E s \in Iterations(frag) :
           debug' = [called |-> TRUE, text |-> DebugSqlizer(ToSql(s))]
    /\ UNCHANGED <<b, out, base, baseOut, text, dialect, formatted, frag, fragOut, hist>>

NextExpr == MakeMap \/ MakeIn \/ MakeRange \/ SetKey \/ ExprToSql \/ DebugFrag

SpecExpr == InitExpr /\ [][NextExpr]_vars

\* a text as characters: neighbouring runs of characters are one run, and the
\* ghost labels are dropped
RECURSIVE Squash(_)
Squash(t) ==
    IF Len(t) < 2 THEN [i \in DOMAIN t |-> [t[i] EXCEPT !.g = 0]]
    ELSE IF t[1].k = "lit" /\ t[2].k = "lit"
         THEN Squash(<<Lit(t[1].s \o t[2].s)>> \o SubSeq(t, 3, Len(t)))
         ELSE <<[t[1] EXCEPT !.g = 0]>> \o Squash(Tail(t))

\* "?" and "?,?,...,?" of n markers, as characters
RECURSIVE CommaMarks(_)
CommaMarks(n) == IF n = 1 THEN <<Q(0)>> ELSE CommaMarks(n - 1) \o <<Lit(","), Q(0)>>

KeyRank(k) == CHOOSE i \in 1..Len(KeyOrder) : KeyOrder[i] = k

\* the keys of the map of frag in ascending order
AscendingKeys ==
    CHOOSE ks \in [1..Cardinality(DOMAIN frag.m) -> DOMAIN frag.m] :
        \A i, j \in DOMAIN ks : i < j => KeyRank(ks[i]) < KeyRank(ks[j])

IsNilValue(v) == v = NilV \/ v = PtrV(NilV)
Pointee(v) == IF v.kind = "ptr" THEN v.elem ELSE v

\* the term one key of Eq (neg = FALSE) or NotEq (neg = TRUE) is to give
C13_Term(key, v, neg) ==
    IF IsNilValue(v)
    THEN R(<<Lit(key \o (IF neg THEN " IS NOT NULL" ELSE " IS NULL"))>>, <<>>, NoErr)
    ELSE IF v.kind = "list"
    THEN IF v.elems = <<>>
         THEN R(<<Lit(IF neg THEN "(1=1)" ELSE "(1=0)")>>, <<>>, NoErr)
         ELSE R(<<Lit(key \o (IF neg THEN " NOT IN (" ELSE " IN ("))>>
                \o CommaMarks(Len(v.elems)) \o <<Lit(")")>>, v.elems, NoErr)
    ELSE IF v.kind = "select"
    THEN R(<<Lit(key \o (IF neg THEN " NOT IN (" ELSE " IN ("))>>
           \o toSqlRaw(v).sql \o <<Lit(")")>>, toSqlRaw(v).args, NoErr)
    ELSE R(<<Lit(key \o (IF neg THEN " <> " ELSE " = ")), Q(0)>>, <<Pointee(v)>>, NoErr)

C14_InOfValue ==
    (fragOut.called /\ frag.kind \in {"in", "notIn"} /\ ~IsSqlizer(frag.expr)) =>
        /\ fragOut.err = NoErr
        /\ Len(Marks(fragOut.sql)) = Len(fragOut.args)
        /\ IF frag.expr.kind = "list" /\ Len(frag.expr.elems) = 0
           THEN fragOut.sql = <<>> /\ fragOut.args = <<>>
           ELSE IF frag.expr.kind = "list" /\ Len(frag.expr.elems) >= 2
           THEN /\ Squash(fragOut.sql) =
                       <<Lit(frag.column \o
                             (IF frag.kind = "in" THEN "=ANY(" ELSE "<>ALL(")),
                         Q(0), Lit(")")>>
                /\ fragOut.args = <<frag.expr>>
           ELSE /\ Squash(fragOut.sql) =
                       <<Lit(frag.column \o (IF frag.kind = "in" THEN "=" ELSE "<>")),
                         Q(0)>>
                /\ fragOut.args =
                       <<IF frag.expr.kind = "list" THEN frag.expr.elems[1]
                         ELSE frag.expr>>

\* NotIn of a list of one element was rendered
C14_Witness ==
    /\ fragOut.called /\ frag.kind = "notIn"
    /\ frag.expr.kind = "list" /\ Len(frag.expr.elems) = 1
    /\ fragOut.args = <<IntV(1)>>

\* In of a list of three elements was rendered
C14_WitnessAny ==
    /\ fragOut.called /\ frag.kind = "in"
    /\ frag.expr.kind = "list" /\ Len(frag.expr.elems) = 3

IsScalar(v) == v.kind \in {"nil", "int", "string"}
\* a bound is present iff it is not nil and not the zero value of its type
Present(v) == v /= NilV /\ v /= IntV(0) /\ v /= StrV(<<>>)

C15_WitnessBetween ==
    /\ fragOut.called /\ frag.kind = "range"
    /\ frag.start = IntV(4) /\ frag.end = StrV(<<Lit("x")>>)
    /\ Len(fragOut.args) = 2

\* a value is empty: nil or a nil pointer, "", the number 0, an empty list, a
\* list of empty elements, and, if zeroOfAnyType, the other zero values (false)
RECURSIVE IsEmpty(_, _)
IsEmpty(v, zeroOfAnyType) ==
    \/ v = NilV \/ v = PtrV(NilV) \/ v = StrV(<<>>) \/ v = IntV(0)
    \/ v.kind = "list" /\ \A i \in DOMAIN v.elems : IsEmpty(v.elems[i], zeroOfAnyType)
    \/ zeroOfAnyType /\ v = BoolV(FALSE)

\* the map of frag without the keys of empty values and without the empty
\* elements of its lists
Stripped(zeroOfAnyType) ==
    [k \in {x \in DOMAIN frag.m : ~IsEmpty(frag.m[x], zeroOfAnyType)} |->
        IF frag.m[k].kind = "list"
        THEN ListV(SelectSeq(frag.m[k].elems, LAMBDA x : ~IsEmpty(x, zeroOfAnyType)))
        ELSE frag.m[k]]

HasNilOrList ==
    \E k \in DOMAIN frag.m : frag.m[k] = NilV \/ frag.m[k].kind = "list"

\* the operator of a comparison or LIKE map
OprOf(s) ==
    IF s.kind = "like" THEN s.opr
    ELSE (IF s.opposite THEN ">" ELSE "<") \o (IF s.orEq THEN "=" ELSE "")

C17_WitnessTerms ==
    /\ fragOut.called /\ frag.kind = "lt" /\ frag.opposite /\ frag.orEq
    /\ Cardinality(DOMAIN frag.m) = 2 /\ \E k \in DOMAIN frag.m : frag.m[k] = BytesV
    /\ Len(fragOut.args) = 2

\* DebugSqlizer was called on a Lt whose value is nil
C17_WitnessDebug ==
    /\ debug.called /\ frag.kind = "lt" /\ ~frag.opposite
    /\ \E k \in DOMAIN frag.m : frag.m[k] = NilV

----------------------------------------------------------------------------
(* CASE expressions: Case() or Case(subject) takes When pairs and an Else, *)
(* and its own ToSql is called.                                            *)

\* When pairs of one CASE
MaxWhens == 2

\* "x = ?" bound to 9, and a > nil, which fails
Subjects == {Expr(<<Lit("x = "), Q(9)>>, <<IntV(9)>>), Gt(("a" :> NilV))}

\* "c" and "x > ?" bound to 1
WhenConds == {str("c"), Expr(<<Lit("x > "), Q(1)>>, <<IntV(1)>>)}

\* "?" bound to 7 as a fragment, nil, 2, the list [1, 2], and a value of a type
\* without SQL name
CaseValues == {Expr(<<Q(7)>>, <<IntV(7)>>), NilV, IntV(2), ListOf(2), OtherV}

InitCase ==
    /\ b = NoBuilder /\ out = NoOut /\ base = NoBuilder /\ baseOut = NoOut
    /\ text = <<>> /\ dialect = "Question" /\ formatted = NoOut
    /\ frag \in {EmptyCase} \cup {CaseBuilder_what(EmptyCase, w) : w \in Subjects}
    /\ fragOut = NoOut
    /\ hist = <<>>
    /\ debug = NoDebug

\* frag = frag.When(when, then)
CaseWhen ==
    /\ Len(frag.d.WhenParts) < MaxWhens
    /\ \E when \in WhenConds, then \in CaseValues :
           /\ frag' = CaseBuilder_When(frag, when, then)
           /\ hist' = Append(hist, Call("When", <<when, then>>))
    /\ fragOut' = NoOut
    /\ UNCHANGED <<b, out, base, baseOut, text, dialect, formatted, debug>>

\* frag = frag.Else(e), once
CaseElse ==
    /\ \A i \in DOMAIN hist : hist[i].op /= "Else"
    /\ \E e \in CaseValues :
           /\ frag' = CaseBuilder_Else(frag, e)
           /\ hist' = Append(hist, Call("Else", e))
    /\ fragOut' = NoOut
    /\ UNCHANGED <<b, out, base, baseOut, text, dialect, formatted, debug>>

NextCase == CaseWhen \/ CaseElse \/ FragToSql

SpecCase == InitCase /\ [][NextCase]_vars

WhenCalls == SelectSeq(hist, LAMBDA c : c.op = "When")
ElseCalls == SelectSeq(hist, LAMBDA c : c.op = "Else")

\* rendering v, if it is a fragment, gives no error
Renders(v) == IsSqlizer(v) => ToSql(v).err = NoErr

\* the subject, the WHEN conditions and the THEN and ELSE values all render
Renderable ==
    /\ Renders(frag.d.What)
    /\ \A i \in DOMAIN WhenCalls : Renders(WhenCalls[i].arg[1]) /\ Renders(WhenCalls[i].arg[2])
    /\ \A i \in DOMAIN ElseCalls : Renders(ElseCalls[i].arg)

\* C18: CaseBuilder.ToSql returns an error whenever no When pair was added,
\* whatever the subject (absent or present) and the Else (absent, a fragment, a
\* scalar or nil); with at least one When pair and parts that render it
\* returns no error.
C18_CaseNeedsWhen ==
    (fragOut.called /\ frag.kind = "case") =>
        /\ WhenCalls = <<>> => fragOut.err /= NoErr
        /\ (WhenCalls /= <<>> /\ Renderable) => fragOut.err = NoErr

\* a CASE with a subject and Else(nil) but no When pair was rendered
C18_Witness ==
    /\ fragOut.called /\ frag.kind = "case"
    /\ frag.d.What /= NilV /\ Renders(frag.d.What)
    /\ WhenCalls = <<>> /\ ElseCalls /= <<>> /\ ElseCalls[1].arg = NilV
    /\ fragOut.err /= NoErr

\* a CASE of two When pairs was rendered without error
C18_WitnessWhen ==
    /\ fragOut.called /\ frag.kind = "case" /\ Len(WhenCalls) = 2
    /\ fragOut.err = NoErr

\* the SQL type of a value of a recognised kind, "" for the others
TypeName(v) ==
    CASE v.kind = "int" -> "bigint"
      [] v.kind = "string" -> "text"
      [] v.kind = "list" /\ v.elems /= <<>> /\ v.elems[1].kind = "int" -> "bigint[]"
      [] OTHER -> ""

\* a THEN or ELSE value in the text: a fragment as it renders, nil as a bare
\* marker bound to nil, a value of a recognised kind as a cast if cast is set,
\* any other value as a bare marker
ValueText(v, cast) ==
    IF IsSqlizer(v) THEN ToSql(v)
    ELSE IF cast /\ TypeName(v) /= ""
    THEN R(<<Lit("CAST("), Q(0), Lit(" AS " \o TypeName(v) \o ")")>>, <<v>>, NoErr)
    ELSE R(<<Q(0)>>, <<v>>, NoErr)

\* the CASE expression made of the subject, the When pairs and the Else of
\* frag, in this order
CaseText(castElse) ==
    R(<<Lit("CASE ")>>
      \o (IF frag.d.What /= NilV THEN ToSql(frag.d.What).sql \o <<Lit(" ")>> ELSE <<>>)
      \o Flatten([i \in DOMAIN WhenCalls |->
                     <<Lit("WHEN ")>> \o ToSql(newPart(WhenCalls[i].arg[1], <<>>)).sql
                     \o <<Lit(" THEN ")>> \o ValueText(WhenCalls[i].arg[2], TRUE).sql
                     \o <<Lit(" ")>>])
      \o (IF ElseCalls /= <<>>
          THEN <<Lit("ELSE ")>> \o ValueText(ElseCalls[1].arg, castElse).sql \o <<Lit(" ")>>
          ELSE <<>>)
      \o <<Lit("END")>>,
      (IF frag.d.What /= NilV THEN ToSql(frag.d.What).args ELSE <<>>)
      \o Flatten([i \in DOMAIN WhenCalls |->
                     ToSql(newPart(WhenCalls[i].arg[1], <<>>)).args
                     \o ValueText(WhenCalls[i].arg[2], TRUE).args])
      \o (IF ElseCalls /= <<>> THEN ValueText(ElseCalls[1].arg, castElse).args ELSE <<>>),
      NoErr)

\* C19 as stated: in a CASE, a THEN or ELSE value that is a fragment is
\* embedded with its text and args, nil renders as a bare "?" bound to nil, a
\* scalar of a recognised kind as "CAST(? AS <sql-type>)" bound to the value,
\* a value of another type as a bare "?"; the args come in the order subject,
\* each WHEN followed by its THEN, ELSE.
C19_ThenAndElseCast ==
    (fragOut.called /\ frag.kind = "case" /\ WhenCalls /= <<>> /\ Renderable) =>
        /\ Squash(fragOut.sql) = Squash(CaseText(TRUE).sql)
        /\ fragOut.args = CaseText(TRUE).args

\* C19: in a CASE, a THEN or ELSE value that is a fragment is embedded with its
\* text and args, and nil renders as a bare "?" bound to nil; a THEN value of
\* a recognised kind renders as "CAST(? AS <sql-type>)" bound to the value and
\* one of another type as a bare "?"; an ELSE value that is no fragment always
\* renders as a bare "?" bound to the value; the args come in the order
\* subject, each WHEN followed by its THEN, ELSE.
C19_ThenCastElseBare ==
    (fragOut.called /\ frag.kind = "case" /\ WhenCalls /= <<>> /\ Renderable) =>
        /\ fragOut.err = NoErr
        /\ Squash(fragOut.sql) = Squash(CaseText(FALSE).sql)
        /\ fragOut.args = CaseText(FALSE).args

\* a CASE with a subject, When("x > ?", 2), When("c", nil) and Else(2) was
\* rendered
C19_Witness ==
    /\ fragOut.called /\ frag.kind = "case" /\ Renderable
    /\ frag.d.What /= NilV /\ Len(WhenCalls) = 2
    /\ WhenCalls[1].arg[2] = IntV(2) /\ IsSqlizer(WhenCalls[1].arg[1])
    /\ WhenCalls[2].arg[2] = NilV
    /\ ElseCalls /= <<>> /\ ElseCalls[1].arg = IntV(2)
    /\ Len(fragOut.args) = 5

----------------------------------------------------------------------------
(* Pagination: a SELECT builder takes a paginator, an id column, limits    *)
(* and offsets, which may be removed again, and is rendered.               *)

\* calls of Limit, Offset, RemoveLimit and RemoveOffset on one builder
MaxCalls == 4

\* variant: the limit stays
SelectBuilder_RemoveLimit_keep(sb) == sb

SelectBuilder_Limit(sb, limit) == [sb EXCEPT !.d.Limit = ToString(limit)]
SelectBuilder_RemoveLimit(sb) == [sb EXCEPT !.d.Limit = ""]
SelectBuilder_Offset(sb, offset) == [sb EXCEPT !.d.Offset = ToString(offset)]
SelectBuilder_RemoveOffset(sb) == [sb EXCEPT !.d.Offset = ""]

InitPage ==
    /\ b \in {[kind |-> "select",
                d |-> [EmptySelectData(f) EXCEPT !.Columns = <<newPart(str("c"), <<>>)>>]] :
                  f \in BuilderFormats}
    /\ out = NoOut
    /\ base = NoBuilder /\ baseOut = NoOut
    /\ text = <<>> /\ dialect = "Question" /\ formatted = NoOut
    /\ frag = NilV /\ fragOut = NoOut
    /\ hist = <<>>
    /\ debug = NoDebug

\* a setter that is recorded, with the kind of paginator it found: b becomes
\* nb, the old rendering is forgotten
DeriveBy(nb, op) ==
    /\ Len(hist) < MaxCalls
    /\ b' = nb
    /\ out' = NoOut
    /\ hist' = Append(hist, Call(op, b.d.Paginator.pType))
    /\ UNCHANGED <<base, baseOut, text, dialect, formatted, frag, fragOut, debug>>

\* b = b.Limit(0) or b.Limit(5)
SetLimit == \E limit \in {0, 5} : DeriveBy(SelectBuilder_Limit(b, limit), "Limit")
\* b = b.RemoveLimit()
RemoveLimit == DeriveBy(SelectBuilder_RemoveLimit(b), "RemoveLimit")
\* b = b.Offset(6)
SetOffset == DeriveBy(SelectBuilder_Offset(b, 6), "Offset")
\* b = b.RemoveOffset()
RemoveOffset == DeriveBy(SelectBuilder_RemoveOffset(b), "RemoveOffset")

NextPage ==
    \/ Paginate \/ SetIDColumn \/ SetLimit \/ RemoveLimit \/ SetOffset \/ RemoveOffset
    \/ BuilderToSql

SpecPage == InitPage /\ [][NextPage]_vars

\* the calls of hist with one of the names ops
CallsOf(ops) == SelectSeq(hist, LAMBDA c : c.op \in ops)
\* the name of the last of them, "" if there is none
LastOf(ops) == IF CallsOf(ops) = <<>> THEN "" ELSE CallsOf(ops)[Len(CallsOf(ops))].op

PaginatorSet == b.d.Paginator.pType \in {PaginatorTypeByPage, PaginatorTypeByID}

\* C20: SelectBuilder.ToSql returns an error with the empty text whenever a
\* paginator by page or by ID is set and the last limit call was Limit or the
\* last offset call was Offset, whatever the order of the calls, and whenever
\* a paginator by ID is set while the ID column is empty; a builder whose last
\* limit call is RemoveLimit does not fail with the limit error, one whose
\* last offset call is RemoveOffset not with the offset error, and with both
\* removed and the ID column set where needed it renders without error.
C20_PaginatorExcludesLimit ==
    (out.called /\ b.kind = "select") =>
        /\ (PaginatorSet /\ (LastOf({"Limit", "RemoveLimit"}) = "Limit"
                             \/ LastOf({"Offset", "RemoveOffset"}) = "Offset")) =>
               out.err /= NoErr /\ out.sql = <<>>
        /\ (b.d.Paginator.pType = PaginatorTypeByID /\ b.d.IDColumn = "") =>
               out.err /= NoErr /\ out.sql = <<>>
        /\ LastOf({"Limit", "RemoveLimit"}) = "RemoveLimit" =>
               out.err /= "limit and paginator cannot be used together"
        /\ LastOf({"Offset", "RemoveOffset"}) = "RemoveOffset" =>
               out.err /= "offset and paginator cannot be used together"
        /\ (/\ LastOf({"Limit", "RemoveLimit"}) /= "Limit"
            /\ LastOf({"Offset", "RemoveOffset"}) /= "Offset"
            /\ ~(b.d.Paginator.pType = PaginatorTypeByID /\ b.d.IDColumn = "")) =>
               out.err = NoErr

\* Limit, then Paginate, then RemoveLimit: the builder renders
C20_Witness ==
    /\ out.called /\ out.err = NoErr /\ PaginatorSet
    /\ Len(hist) = 2 /\ hist[1].op = "Limit" /\ hist[2].op = "RemoveLimit"
    /\ hist[1].arg = PaginatorTypeUndefined /\ hist[2].arg /= PaginatorTypeUndefined

\* Paginate, then Offset: the builder fails
C20_WitnessError ==
    /\ out.called /\ out.err /= NoErr /\ PaginatorSet
    /\ Len(hist) = 1 /\ hist[1].op = "Offset" /\ hist[1].arg /= PaginatorTypeUndefined

----------------------------------------------------------------------------
(* Pagination: a SELECT takes where-parts, a paginator and an ID column in *)
(* any order and is rendered.                                              *)

\* Where calls on one builder
MaxWheres == 2

\* 1 << 63
HalfRange == [i \in 1..UintLimbs |-> IF i = UintLimbs THEN LimbBase \div 2 ELSE 0]

PageSizes == {uint64(0), uint64(10), HalfRange}
PageNums == {uint64(n) : n \in 0..3}
Paginators ==
    {PaginatorByPage(l, p) : l \in PageSizes, p \in PageNums}
    \cup {PaginatorByID(uint64(10), 20)}

\* b = b.Paginate(p)
PaginateBy ==
    /\ b.d.Paginator = NoPaginator
    /\ \E p \in Paginators : Derive([b EXCEPT !.d.Paginator = p])

\* b = b.Where("a = ?", 1) or b.Where(Expr("x = ?", 2))
PageWhere ==
    /\ Len(b.d.WhereParts) < MaxWheres
    /\ \E p \in {<<Bound("a", 1), <<IntV(1)>>>>,
                 <<Expr(<<Lit("x = "), Q(2)>>, <<IntV(2)>>), <<>>>>} :
           Derive([b EXCEPT !.d.WhereParts = Append(@, newWherePart(p[1], p[2]))])

NextPaging == PaginateBy \/ PageWhere \/ SetIDColumn \/ BuilderToSql

SpecPaging == InitPage /\ [][NextPaging]_vars

\* the text t stands right after the keyword kw in the rendered statement
Follows(kw, t) ==
    \E i \in 1..(Len(out.sql) - 1) : out.sql[i] = Lit(kw) /\ out.sql[i + 1] = Lit(t)

\* the rendering of b without its paginator
Unpaged == ToSql([b EXCEPT !.d.Paginator = NoPaginator])

\* the statement is the one without the paginator, then the ID predicate as one
\* more where conjunct bound to lastID, then the limit
EndsWithIDPredicate(p) ==
    /\ Len(out.sql) = Len(Unpaged.sql) + 5
    /\ SubSeq(out.sql, 1, Len(Unpaged.sql)) = Unpaged.sql
    /\ out.sql[Len(out.sql) - 4]
           = Lit(IF Len(b.d.WhereParts) = 0 THEN " WHERE " ELSE " AND ")
    /\ out.sql[Len(out.sql) - 3] = Lit(b.d.IDColumn \o " > ")
    /\ out.sql[Len(out.sql) - 2].k /= "lit"
    /\ out.args = Unpaged.args \o <<IntV(p.lastID)>>

\* what C21 says of a rendering, the offset being the text offset
PaginatorClauses(p, offset) ==
    /\ Follows(" LIMIT ", formatUint(p.limit))
    /\ p.pType = PaginatorTypeByPage =>
           /\ Occurrences(out.sql, " OFFSET ") = (IF greaterThanOne(p.page) THEN 1 ELSE 0)
           /\ greaterThanOne(p.page) => Follows(" OFFSET ", offset)
    /\ p.pType = PaginatorTypeByID =>
           /\ Occurrences(out.sql, " OFFSET ") = 0
           /\ EndsWithIDPredicate(p)

\* C21: a SELECT with a paginator and no manual limit or offset renders
\* " LIMIT l"; with a paginator by page it renders " OFFSET o" iff page > 1, o
\* being the integer l*(p-1); with a paginator by ID and an ID column c it
\* renders no OFFSET and "c > ?" as the last where conjunct, bound to lastID
\* after the args of every other where-part.
C21_PageOffsetIsProduct ==
    (out.called /\ out.err = NoErr /\ PaginatorSet) =>
        PaginatorClauses(b.d.Paginator,
            formatUint(mulUint64_exact(b.d.Paginator.limit, decUint64(b.d.Paginator.page))))

----------------------------------------------------------------------------
(* INSERT sources: an INSERT takes columns, VALUES rows and a SELECT source *)
(* in any order and is rendered.                                            *)

\* Values calls on one builder
MaxRows == 2

\* Insert("t1") of a statement builder; frag is the SELECT that Select is given
InitInsert ==
    /\ b \in {[kind |-> "insert", d |-> [EmptyInsertData(f) EXCEPT !.Into = "t1"]] :
                f \in BuilderFormats}
    /\ out = NoOut
    /\ base = NoBuilder /\ baseOut = NoOut
    /\ text = <<>> /\ dialect = "Question" /\ formatted = NoOut
    /\ frag \in InnerSelects
    /\ fragOut = NoOut
    /\ hist = <<>>
    /\ debug = NoDebug

\* a recorded setter of the INSERT builder
InsertCall(nb, op) ==
    /\ b' = nb
    /\ out' = NoOut
    /\ hist' = Append(hist, Call(op, Len(hist)))
    /\ UNCHANGED <<base, baseOut, text, dialect, formatted, frag, fragOut, debug>>

\* b = b.Columns("a", "b")
InsertCols ==
    /\ b.d.Columns = <<>>
    /\ InsertCall([b EXCEPT !.d.Columns = @ \o <<"a", "b">>], "Columns")

\* the rows given as the r-th row: scalars, nil among them
RowsFor(r) ==
    {<<IntV(10 * r + 1)>>, <<IntV(10 * r + 1), IntV(10 * r + 2)>>, <<NilV, IntV(10 * r + 2)>>}

\* b = b.Values(row...)
InsertValues ==
    /\ Len(b.d.Values) < MaxRows
    /\ \E row \in RowsFor(Len(b.d.Values) + 1) :
           InsertCall([b EXCEPT !.d.Values = Append(@, row)], "Values")

\* b = b.Select(frag)
InsertFrom ==
    /\ b.d.Select.kind = "nil"
    /\ InsertCall([b EXCEPT !.d.Select = frag], "Select")

NextInsert == InsertCols \/ InsertValues \/ InsertFrom \/ BuilderToSql

SpecInsert == InitInsert /\ [][NextInsert]_vars

\* "INSERT INTO t1 " and the column list, if columns were given
InsertHead ==
    <<Lit("INSERT INTO " \o b.d.Into \o " ")>>
    \o (IF b.d.Columns = <<>> THEN <<>>
        ELSE <<Lit("(")>> \o JoinStrings(b.d.Columns, ",") \o <<Lit(") ")>>)

\* "(?,?)" for a row of scalars
RowText(row) == <<Lit("(")>> \o Join([i \in DOMAIN row |-> <<Q(0)>>], ",") \o <<Lit(")")>>

\* the statement text in the placeholder format of the builder
InFormat(t) == Squash(ReplacePlaceholders(b.d.PlaceholderFormat, t))

\* C22: an INSERT with Values rows and a Select source, set in either order,
\* renders "INSERT INTO t [(cols)] " and the select's text with the select's
\* args alone, without a VALUES clause; with Values alone it renders
\* "VALUES (..),(..)", rows in insertion order, one placeholder per scalar
\* cell, the args in row-major order.
C22_SelectReplacesValues ==
    (out.called /\ b.kind = "insert" /\ out.err = NoErr) =>
        IF b.d.Select.kind /= "nil"
        THEN /\ Squash(out.sql) = InFormat(InsertHead \o toSqlRaw(b.d.Select).sql)
             /\ out.args = toSqlRaw(b.d.Select).args
             /\ Occurrences(out.sql, "VALUES ") = 0
        ELSE /\ Squash(out.sql)
                    = InFormat(InsertHead \o <<Lit("VALUES ")>>
                               \o Join([r \in DOMAIN b.d.Values |-> RowText(b.d.Values[r])],
                                       ","))
             /\ out.args = Flatten(b.d.Values)

\* Values, then Select, rendered with a column list
C22_Witness ==
    /\ out.called /\ out.err = NoErr /\ b.d.Columns /= <<>>
    /\ b.d.Select.kind /= "nil" /\ Len(b.d.Values) = 2
    /\ \E i, j \in DOMAIN hist : i < j /\ hist[i].op = "Values" /\ hist[j].op = "Select"

\* Select, then Values
C22_WitnessSelectFirst ==
    /\ out.called /\ out.err = NoErr /\ b.d.Select.kind /= "nil" /\ Len(b.d.Values) > 0
    /\ \E i, j \in DOMAIN hist : i < j /\ hist[i].op = "Select" /\ hist[j].op = "Values"

\* two rows of two cells and no Select
C22_WitnessRows ==
    /\ out.called /\ out.err = NoErr /\ b.d.Select.kind = "nil"
    /\ Len(b.d.Values) = 2 /\ Len(b.d.Values[1]) = 2 /\ Len(b.d.Values[2]) = 2

----------------------------------------------------------------------------
(* Common table expressions: With("w1"), then Cte, Recursive, As and the   *)
(* terminal setters in any order, each call recorded, then ToSql.          *)

\* recorded calls on one CTE builder
MaxCteCalls == 4

InitCte ==
    /\ b \in {[kind |-> "cte", d |-> [EmptyCteData(f) EXCEPT !.CurrentCteName = "w1"]] :
                f \in BuilderFormats}
    /\ out = NoOut
    /\ base = NoBuilder /\ baseOut = NoOut
    /\ text = <<>> /\ dialect = "Question" /\ formatted = NoOut
    /\ frag = NilV /\ fragOut = NoOut
    /\ hist = <<>>
    /\ debug = NoDebug

\* a recorded call of the CTE builder
CteCall(nb, op, arg) ==
    /\ Len(hist) < MaxCteCalls
    /\ b' = nb
    /\ out' = NoOut
    /\ hist' = Append(hist, Call(op, arg))
    /\ UNCHANGED <<base, baseOut, text, dialect, formatted, frag, fragOut, debug>>

\* b = b.Cte(name)
CteName ==
    \E name \in {"w2"} : CteCall([b EXCEPT !.d.CurrentCteName = name], "Cte", name)

\* b = b.Recursive(true)
CteRecursive ==
    /\ ~b.d.Recursive
    /\ CteCall([b EXCEPT !.d.Recursive = TRUE], "Recursive", "true")

\* b = b.As(s), s a SELECT with k bound values in the Dollar format
CteAs ==
    \E k \in 1..2 :
        CteCall(CommonTableExpressionsBuilder_As(b, InnerSelect(k, "Dollar")), "As", k)

\* b = b.Select(t), b.Insert(t) or b.Delete(t)
CteTerminal ==
    \E t \in {x \in Terminals : x.kind /= "update"} :
        CteCall(CommonTableExpressionsBuilder_Statement(b, t), "Statement", t.kind)

NextCte == CteName \/ CteRecursive \/ CteAs \/ CteTerminal \/ BuilderToSql

SpecCte == InitCte /\ [][NextCte]_vars

\* the positions of hist that hold a call of op, in order
CallIndices(op) == SelectSeq([i \in DOMAIN hist |-> i], LAMBDA i : hist[i].op = op)

\* the name given last before the i-th call: that of With if Cte was not called
NameAt(i) ==
    IF \A j \in 1..(i - 1) : hist[j].op /= "Cte" THEN "w1"
    ELSE hist[CHOOSE j \in 1..(i - 1) :
                  /\ hist[j].op = "Cte"
                  /\ \A k \in (j + 1)..(i - 1) : hist[k].op /= "Cte"].arg

\* the select given to the As call at position i, rendered on its own
AsSelect(i) == ToSql(InnerSelect(hist[i].arg, "Question"))

\* the terminal statement of the last terminal call, rendered raw
LastTerminal ==
    toSqlRaw(CHOOSE t \in Terminals :
                 t.kind = hist[CallIndices("Statement")[Len(CallIndices("Statement"))]].arg)

\* "WITH [RECURSIVE ]n1 AS (s1), n2 AS (s2) <terminal>"
CteExpected ==
    <<Lit("WITH ")>>
    \o (IF CallIndices("Recursive") = <<>> THEN <<>> ELSE <<Lit("RECURSIVE ")>>)
    \o Join([n \in DOMAIN CallIndices("As") |->
                <<Lit(NameAt(CallIndices("As")[n]) \o " AS (")>>
                \o AsSelect(CallIndices("As")[n]).sql \o <<Lit(")")>>], ", ")
    \o <<Lit(" ")>> \o LastTerminal.sql

\* C23: every As call adds one CTE under the name given last before that call;
\* ToSql renders the CTEs in the order of the As calls, then the terminal
\* statement of the last terminal setter called, and the args are those of
\* the CTEs in that order followed by those of that terminal statement alone.
C23_CtesInAsOrder ==
    (out.called /\ b.kind = "cte" /\ out.err = NoErr) =>
        /\ Squash(out.sql) = InFormat(CteExpected)
        /\ out.args = Flatten([n \in DOMAIN CallIndices("As") |->
                                  AsSelect(CallIndices("As")[n]).args])
                      \o LastTerminal.args

\* As, Cte, As and a terminal setter, rendered: two CTEs under different names
C23_Witness ==
    /\ out.called /\ out.err = NoErr /\ Len(hist) = 4
    /\ hist[1].op = "As" /\ hist[2].op = "Cte" /\ hist[3].op = "As"
    /\ hist[1].arg /= hist[3].arg /\ hist[4].op = "Statement"

\* two different terminal setters after an As, rendered
C23_WitnessTerminals ==
    /\ out.called /\ out.err = NoErr
    /\ Len(CallIndices("Statement")) = 2
    /\ hist[CallIndices("Statement")[1]].arg /= hist[CallIndices("Statement")[2]].arg

----------------------------------------------------------------------------
(* DebugSqlizer: a text is typed in one character at a time, made into a   *)
(* fragment with some args, and the fragment is shown by DebugSqlizer.     *)

\* args of one Expr
MaxArgs == 2

\* 1, "t", the fragment Expr("f(?)", 8) and the list [1, 2]
DebugArgs ==
    UNION {[1..n -> {IntV(1), str("t"), Expr(<<Lit("f("), Q(8), Lit(")")>>, <<IntV(8)>>),
                     ListOf(2)}] : n \in 0..MaxArgs}

InitDebug ==
    /\ b = NoBuilder /\ out = NoOut /\ base = NoBuilder /\ baseOut = NoOut
    /\ frag = NilV /\ fragOut = NoOut
    /\ hist = <<>>
    /\ debug = NoDebug
    /\ text = <<>>
    /\ dialect = "Question"
    /\ formatted = NoOut

\* one more character of the text; the fragment made of the old text is gone
TypeSql ==
    /\ Len(text) < MaxLen
    /\ \E c \in Chars : text' = Append(text, c)
    /\ frag' = NilV /\ fragOut' = NoOut /\ debug' = NoDebug
    /\ UNCHANGED <<b, out, base, baseOut, dialect, formatted, hist>>

\* frag = Expr(text, args...), or Gt{"a": nil}, whose ToSql fails
MakeFrag ==
    /\ frag' \in {Expr(text, args) : args \in DebugArgs} \cup {Gt(("a" :> NilV))}
    /\ frag' /= frag
    /\ fragOut' = NoOut /\ debug' = NoDebug
    /\ UNCHANGED <<b, out, base, baseOut, text, dialect, formatted, hist>>

NextDebug == TypeSql \/ MakeFrag \/ ExprToSql \/ DebugFrag

SpecDebug == InitDebug /\ [][NextDebug]_vars

RECURSIVE SingleMarks(_), Interpolate(_, _)
\* the single '?' of a text read from the left, "??" being one literal '?'
SingleMarks(t) ==
    IF t = <<>> THEN 0
    ELSE IF t[1].k /= "q" THEN SingleMarks(Tail(t))
    ELSE IF Len(t) > 1 /\ t[2].k = "q" THEN SingleMarks(SubSeq(t, 3, Len(t)))
    ELSE 1 + SingleMarks(Tail(t))

\* the text with its i-th single '?' replaced by the i-th of args, quoted, and
\* every "??" by one '?'
Interpolate(t, args) ==
    IF t = <<>> THEN <<>>
    ELSE IF t[1].k /= "q" THEN <<t[1]>> \o Interpolate(Tail(t), args)
    ELSE IF Len(t) > 1 /\ t[2].k = "q"
    THEN <<Q(0)>> \o Interpolate(SubSeq(t, 3, Len(t)), args)
    ELSE <<Shown(args[1])>> \o Interpolate(Tail(t), Tail(args))

\* C24: DebugSqlizer(s) returns a string that starts with "[ToSql error: " if
\* s.ToSql fails; otherwise, reading "??" as one literal '?', one that starts
\* with "[DebugSqlizer error: " if the single '?' are more or fewer than the
\* args, and if they are as many as the args the text with the i-th single
\* '?' replaced by the i-th arg in quotes and every "??" by one '?'.
C24_DebugSqlizerTotal ==
    (debug.called /\ frag.kind /= "nil") =>
        IF ToSql(frag).err /= NoErr
        THEN Len(debug.text) >= 1 /\ debug.text[1] = Lit("[ToSql error: ")
        ELSE IF SingleMarks(ToSql(frag).sql) /= Len(ToSql(frag).args)
        THEN Len(debug.text) >= 1 /\ debug.text[1] = Lit("[DebugSqlizer error: ")
        ELSE debug.text = Interpolate(ToSql(frag).sql, ToSql(frag).args)

\* "?x??" or the like with one arg: one arg placed, one "??" unescaped
C24_Witness ==
    /\ debug.called /\ frag.kind = "expr" /\ Len(frag.args) = 1
    /\ SingleMarks(frag.sql) = 1 /\ Len(Marks(frag.sql)) = 3
    /\ debug.text = Interpolate(frag.sql, frag.args)

\* more single '?' than args, fewer of them, and a fragment that fails
C24_WitnessTooMany ==
    /\ debug.called /\ frag.kind = "expr" /\ SingleMarks(frag.sql) > Len(frag.args)
    /\ debug.text[1] = Lit("[DebugSqlizer error: ")
C24_WitnessNotEnough ==
    /\ debug.called /\ frag.kind = "expr" /\ SingleMarks(frag.sql) < Len(frag.args)
    /\ debug.text[1] = Lit("[DebugSqlizer error: ")
C24_WitnessToSqlError ==
    /\ debug.called /\ frag.kind /= "expr" /\ debug.text[1] = Lit("[ToSql error: ")

----------------------------------------------------------------------------
(* Clause lists: a list of fragments is put together one fragment at a     *)
(* time and written by appendToSql with the separator of its clause.       *)

\* fragments of one clause list
MaxFrags == 3

\* "x = ?" bound to the position in the list, Eq{"b": 2}, a nil predicate,
\* In("a", []) and Expr("", 7), which render empty, and a > nil, which fails
ClauseParts(i) ==
    {newWherePart(Bound("x", i), <<IntV(i)>>), newWherePart(Eq(("b" :> IntV(2))), <<>>),
     newWherePart(NilV, <<>>), In("a", ListOf(0)), Expr(<<>>, <<IntV(7)>>),
     Gt(("a" :> NilV))}

ClauseList(parts, sep) == [kind |-> "parts", parts |-> parts, sep |-> sep]

InitAppend ==
    /\ b = NoBuilder /\ out = NoOut /\ base = NoBuilder /\ baseOut = NoOut
    /\ text = <<>> /\ dialect = "Question" /\ formatted = NoOut
    /\ frag \in {ClauseList(<<>>, sep) : sep \in {" AND ", ", "}}
    /\ fragOut = NoOut
    /\ hist = <<>>
    /\ debug = NoDebug

\* one more fragment at the end of the list
AddPart ==
    /\ Len(frag.parts) < MaxFrags
    /\ \E p \in ClauseParts(Len(frag.parts) + 1) :
           frag' = [frag EXCEPT !.parts = Append(@, p)]
    /\ fragOut' = NoOut
    /\ UNCHANGED <<b, out, base, baseOut, text, dialect, formatted, hist, debug>>

\* args, err = appendToSql(parts, w, sep, nil) on an empty buffer w: fragOut
\* holds what w holds then, with args and err
AppendToSql ==
    /\ ~fragOut.called
    /\ \E st \in {appendToSql(frag.parts, <<>>, frag.sep, <<>>)} :
           fragOut' = Called(R(st.w, st.args, st.err))
    /\ UNCHANGED <<b, out, base, baseOut, text, dialect, formatted, frag, hist, debug>>

NextAppend == AddPart \/ AppendToSql

SpecAppend == InitAppend /\ [][NextAppend]_vars

\* the renderings of the fragments of the list that are not empty texts
NonEmptyParts ==
    SelectSeq([i \in DOMAIN frag.parts |-> nestedToSql(frag.parts[i])],
              LAMBDA r : r.sql /= <<>>)

\* C25: appendToSql writes the non-empty texts of the fragments in list order
\* joined by the separator, and returns the args of those fragments in that
\* order; a fragment that renders the empty text adds no text, no separator
\* and no args, be it first, in the middle or last.
C25_EmptyFragmentsSkipped ==
    (fragOut.called /\ fragOut.err = NoErr) =>
        /\ fragOut.sql = Join([i \in DOMAIN NonEmptyParts |-> NonEmptyParts[i].sql],
                              frag.sep)
        /\ fragOut.args = Flatten([i \in DOMAIN NonEmptyParts |-> NonEmptyParts[i].args])

RECURSIVE SpliceText(_, _), SpliceArgs(_, _)
\* the text t read from the left with the arguments a still to be consumed:
\* a "??" is copied, a single '?' consumes the next argument and is replaced by
\* its text if that is a fragment, and nothing changes once a is used up
SpliceText(t, a) ==
    IF t = <<>> \/ a = <<>> THEN t
    ELSE IF t[1].k /= "q" THEN <<t[1]>> \o SpliceText(Tail(t), a)
    ELSE IF Len(t) > 1 /\ t[2].k = "q"
    THEN <<t[1], t[2]>> \o SpliceText(SubSeq(t, 3, Len(t)), a)
    ELSE (IF IsSqlizer(a[1]) THEN ToSql(a[1]).sql ELSE <<t[1]>>)
         \o SpliceText(Tail(t), Tail(a))

\* the args of that reading: those of a fragment in its place, any other
\* argument itself, and the arguments left over at the end of the text
SpliceArgs(t, a) ==
    IF t = <<>> \/ a = <<>> THEN a
    ELSE IF t[1].k /= "q" THEN SpliceArgs(Tail(t), a)
    ELSE IF Len(t) > 1 /\ t[2].k = "q" THEN SpliceArgs(SubSeq(t, 3, Len(t)), a)
    ELSE (IF IsSqlizer(a[1]) THEN ToSql(a[1]).args ELSE <<a[1]>>)
         \o SpliceArgs(Tail(t), Tail(a))

\* C26: Expr(sql, args...).ToSql reads sql from the left; every single '?'
\* consumes the next argument: a fragment replaces the '?' by its text and
\* puts its args in that place, any other argument keeps the '?' and is
\* appended to the args; a "??" is copied and consumes nothing; arguments left
\* over are appended as they are.  Without a fragment or a list among the
\* arguments, text and args come back as given.
C26_ExprSplicesFragments ==
    (fragOut.called /\ frag.kind = "expr" /\ fragOut.err = NoErr) =>
        /\ fragOut.sql = SpliceText(frag.sql, frag.args)
        /\ fragOut.args = SpliceArgs(frag.sql, frag.args)
        /\ (\A i \in DOMAIN frag.args :
                ~IsSqlizer(frag.args[i]) /\ ~isListType(frag.args[i])) =>
               fragOut.sql = frag.sql /\ fragOut.args = frag.args

\* Expr("?x??", Expr("f(?)", 8), 1) or the like: the fragment is spliced in,
\* the "??" copied, the second argument left over
C26_Witness ==
    /\ fragOut.called /\ frag.kind = "expr" /\ fragOut.err = NoErr
    /\ Len(frag.args) = 2 /\ IsSqlizer(frag.args[1]) /\ ~IsSqlizer(frag.args[2])
    /\ SingleMarks(frag.sql) = 1 /\ Len(Marks(frag.sql)) = 3
    /\ fragOut.args = <<IntV(8), frag.args[2]>>

----------------------------------------------------------------------------
(* Balance of placeholders and args in the statements of the builder       *)
(* machine, whose fragments each bind one value per placeholder.           *)

\* the raw rendering of the builder: toSqlRaw of a statement, and for a CTE,
\* which has none, its rendering under the Question format
RawOf(x) ==
    IF x.kind \in RawKinds THEN toSqlRaw(x)
    ELSE ToSql([x EXCEPT !.d.PlaceholderFormat = "Question"])

\* the placeholders of a formatted text: its tokens, and its single '?'
Holders(t) == Len(Toks(t)) + SingleMarks(t)

\* C27: a statement put together from balanced fragments, nested through
\* conjunctions, aliases, aggregates and sub-selects, renders a raw text with
\* as many unescaped '?' as it returns args, and a formatted text with as
\* many placeholder tokens as args.
C27_BalancedComposition ==
    (out.called /\ out.err = NoErr) =>
        /\ SingleMarks(RawOf(b).sql) = Len(RawOf(b).args)
        /\ Holders(out.sql) = Len(out.args)

----------------------------------------------------------------------------
(* Determinism of the map predicates *)

\* C28: two ToSql calls on one map predicate return the same text, args and
\* error, whatever the order in which the map is iterated; the comparison and
\* LIKE maps render their keys in ascending order, the i-th arg being the
\* value of the key of the i-th term.
C28_RenderingIsDeterministic ==
    (fragOut.called /\ frag.kind \in MapKinds) =>
        /\ \A s \in Iterations(frag) :
               /\ ToSql(s).sql = fragOut.sql
               /\ ToSql(s).args = fragOut.args
               /\ ToSql(s).err = fragOut.err
        /\ (frag.kind \in {"lt", "like"} /\ fragOut.err = NoErr) =>
               /\ Squash(fragOut.sql) =
                      Squash(Join([i \in DOMAIN AscendingKeys |->
                                      <<Lit(AscendingKeys[i] \o " " \o OprOf(frag) \o " "),
                                        Q(0)>>], " AND "))
               /\ fragOut.args = [i \in DOMAIN AscendingKeys |-> frag.m[AscendingKeys[i]]]

----------------------------------------------------------------------------
(* Repeated Else: a CASE with one When pair takes Else calls and is        *)
(* rendered.                                                               *)

\* Else calls on one CASE
MaxElses == 2

\* Case().When("c", 2) and Case(subject).When("c", 2)
InitElse ==
    /\ b = NoBuilder /\ out = NoOut /\ base = NoBuilder /\ baseOut = NoOut
    /\ text = <<>> /\ dialect = "Question" /\ formatted = NoOut
    /\ frag \in {CaseBuilder_When(c, str("c"), IntV(2)) :
                    c \in {EmptyCase} \cup {CaseBuilder_what(EmptyCase, w) : w \in Subjects}}
    /\ fragOut = NoOut
    /\ hist = <<>>
    /\ debug = NoDebug

\* frag = frag.Else(e), again and again
CaseElseAgain ==
    /\ Len(ElseCalls) < MaxElses
    /\ \E e \in CaseValues :
           /\ frag' = CaseBuilder_Else(frag, e)
           /\ hist' = Append(hist, Call("Else", e))
    /\ fragOut' = NoOut
    /\ UNCHANGED <<b, out, base, baseOut, text, dialect, formatted, debug>>

NextElse == CaseElseAgain \/ FragToSql

SpecElse == InitElse /\ [][NextElse]_vars

\* the CASE of frag on which Else was called once, with the argument of the
\* last Else call
LastElseOnly ==
    CaseBuilder_Else([frag EXCEPT !.d.Else = NilV, !.d.ElseValue = NilV,
                                  !.d.ElseNull = FALSE],
                     ElseCalls[Len(ElseCalls)].arg)

\* C29: after any sequence of Else calls on a CASE with a When pair, the CASE
\* renders as if only the last Else call had been made: the text and args of
\* a fragment, "ELSE ?" bound to nil for nil, and the scalar bound to its
\* placeholder, whatever the earlier Else calls were given.
C29_LastElseWins ==
    (fragOut.called /\ ElseCalls /= <<>>) =>
        /\ fragOut.sql = ToSql(LastElseOnly).sql
        /\ fragOut.args = ToSql(LastElseOnly).args
        /\ fragOut.err = ToSql(LastElseOnly).err

----------------------------------------------------------------------------
(* WHERE clauses: a SELECT, an UPDATE or a DELETE takes Where calls, some   *)
(* with predicates that render the empty text, and is rendered.            *)

\* SelectBuilder.Where returns the builder itself for nil and ""
SelectBuilder_Where(sb, pred, args) ==
    IF pred.kind = "nil" \/ pred = StrV(<<>>) THEN sb
    ELSE [sb EXCEPT !.d.WhereParts = Append(@, newWherePart(pred, args))]

\* UpdateBuilder.Where and DeleteBuilder.Where append whatever they are given
Builder_Where(x, pred, args) ==
    IF x.kind = "select" THEN SelectBuilder_Where(x, pred, args)
    ELSE [x EXCEPT !.d.WhereParts = Append(@, newWherePart(pred, args))]

\* nil, "", In("a", []) and Range("a", nil, nil), which render empty
EmptyPreds == {NilV, StrV(<<>>), In("a", ListOf(0)), Range("a", NilV, NilV)}

\* Select("c"), Update("t1").Set("x", 1) and Delete("t1")
InitWhere ==
    /\ b \in UNION {{[kind |-> "select",
                      d |-> [EmptySelectData(f) EXCEPT
                               !.Columns = <<newPart(str("c"), <<>>)>>]],
                     [kind |-> "update",
                      d |-> [EmptyUpdateData(f) EXCEPT
                               !.Table = "t1", !.SetClauses = <<setClause("x", IntV(1))>>]],
                     [kind |-> "delete", d |-> [EmptyDeleteData(f) EXCEPT !.From = "t1"]]} :
                    f \in BuilderFormats}
    /\ out = NoOut
    /\ base = NoBuilder /\ baseOut = NoOut
    /\ text = <<>> /\ dialect = "Question" /\ formatted = NoOut
    /\ frag = NilV /\ fragOut = NoOut
    /\ hist = <<>>
    /\ debug = NoDebug

\* a recorded Where call
WhereCall(pred, args) ==
    /\ Len(hist) < MaxWheres
    /\ b' = Builder_Where(b, pred, args)
    /\ out' = NoOut
    /\ hist' = Append(hist, Call("Where", pred))
    /\ UNCHANGED <<base, baseOut, text, dialect, formatted, frag, fragOut, debug>>

\* b = b.Where(pred), pred rendering empty
WhereEmpty == \E pred \in EmptyPreds : WhereCall(pred, <<>>)

\* b = b.Where("y = ?", 3)
WhereBound == WhereCall(Bound("y", 3), <<IntV(3)>>)

NextWhere == WhereEmpty \/ WhereBound \/ BuilderToSql

SpecWhere == InitWhere /\ [][NextWhere]_vars

\* every Where call was given a predicate that renders empty
OnlyEmptyWheres ==
    /\ hist /= <<>>
    /\ \A i \in DOMAIN hist : hist[i].arg \in EmptyPreds

\* C30: a SELECT, UPDATE or DELETE all of whose where-parts render the empty
\* text holds no " WHERE " and is the statement built without the Where calls.
C30_NoWhereWithoutPredicate ==
    (out.called /\ out.err = NoErr /\ OnlyEmptyWheres) =>
        /\ Occurrences(out.sql, " WHERE ") = 0
        /\ out.sql = ToSql([b EXCEPT !.d.WhereParts = <<>>]).sql
        /\ out.args = ToSql([b EXCEPT !.d.WhereParts = <<>>]).args

====
